---------------------------- MODULE Spec2Model ----------------------------
(***************************************************************************)
(* A model of the CHIP-8 execution engine: memory, register file, call     *)
(* stack, timer pair and the CPU fetch/decode/execute cycle with its       *)
(* key-wait sub-state.                                                     *)
(*                                                                         *)
(* Sequential Rust code is modelled functionally: every method becomes an  *)
(* operator that takes the component state (a record) and returns the new  *)
(* component state together with the Result the method returns.  The `?`   *)
(* operator of the source becomes an IF on that Result.                    *)
(***************************************************************************)
EXTENDS Integers, Naturals, Sequences, FiniteSets, TLC

VARIABLES
    v,                        \* Registers.v : [u8; 16]
    i,                        \* Registers.i : u16
    pc,                       \* Registers.pc : u16
    sp,                       \* Registers.sp : u8 (shadow stack pointer)
    mem_data,                 \* Memory.data, as the map of its non-zero cells
    wraparound_enabled,       \* Memory.wraparound_enabled
    stack_data,               \* Stack.data : [u16; 16]
    stack_sp,                 \* Stack.sp : usize
    delay_timer,              \* Timers.delay_timer
    sound_timer,              \* Timers.sound_timer
    instruction_count,        \* Cpu.instruction_count
    waiting_for_key,          \* Cpu.waiting_for_key
    key_wait_register,        \* Cpu.key_wait_register
    waiting_for_key_release,  \* Cpu.waiting_for_key_release : Option<u8>
    display,                  \* Cpu.display and the display's own state
    audio,                    \* Cpu.audio and the sink's own state
    buzzer,                   \* AudioBuzzer, its shared BuzzerState and the lock
    engine_thread,            \* the thread that calls the buzzer's methods
    audio_thread,             \* the stream's data callback and its buffer
    input_attached,           \* Cpu.input.is_some()
    pressed_keys,             \* the input source's set of keys that are down
    last,                     \* the last cycle/load/reset and what it returned
    ncycles                   \* number of cycle() calls since construction/reset

cpuVars == <<v, i, pc, sp, mem_data, wraparound_enabled, stack_data, stack_sp,
             delay_timer, sound_timer, instruction_count, waiting_for_key,
             key_wait_register, waiting_for_key_release, display, audio>>

audioVars == <<buzzer, engine_thread, audio_thread>>

vars == <<v, i, pc, sp, mem_data, wraparound_enabled, stack_data, stack_sp,
          delay_timer, sound_timer, instruction_count, waiting_for_key,
          key_wait_register, waiting_for_key_release, display, audio,
          buzzer, engine_thread, audio_thread,
          input_attached, pressed_keys, last, ncycles>>

(***************************************************************************)
(* Program constants                                                       *)
(***************************************************************************)
MEMORY_SIZE == 4096
PROGRAM_START == 512
FONT_START == 80
FONT_SIZE == 80
NUM_REGISTERS == 16
FLAG_REGISTER == 15
STACK_SIZE == 16
U8 == 256
U16 == 65536
None == -1

FONT_SET ==
    << 240, 144, 144, 144, 240,
        32,  96,  32,  32, 112,
       240,  16, 240, 128, 240,
       240,  16, 240,  16, 240,
       144, 144, 240,  16,  16,
       240, 128, 240,  16, 240,
       240, 128, 240, 144, 240,
       240,  16,  32,  64,  64,
       240, 144, 240, 144, 240,
       240, 144, 240,  16, 240,
       240, 144, 240, 144, 144,
       224, 144, 224, 144, 224,
       240, 128, 128, 128, 240,
       224, 144, 144, 144, 224,
       240, 128, 240, 128, 240,
       240, 128, 240, 128, 128 >>

(***************************************************************************)
(* Bounds of the model                                                     *)
(***************************************************************************)
MaxCycles == 18      \* cycle() calls explored after construction or reset
MaxTicks == 1        \* timer periods that may elapse between two cycles
MaxKey == 1          \* the environment touches two further keys 0..MaxKey

(***************************************************************************)
(* Results (Result<T, EmulatorError>)                                      *)
(***************************************************************************)
OK == [kind |-> "Ok", arg |-> 0]
Err(kind, arg) == [kind |-> kind, arg |-> arg]
PANIC == [kind |-> "Panic", arg |-> 0]
IsOk(r) == r.kind = "Ok"

(***************************************************************************)
(* Byte arithmetic                                                         *)
(***************************************************************************)
Bit(a, k) == (a \div (2 ^ k)) % 2

RECURSIVE BitwiseFrom(_, _, _, _)
BitwiseFrom(op, a, b, k) ==
    IF k = 8 THEN 0
    ELSE LET x == Bit(a, k)
             y == Bit(b, k)
             r == CASE op = "or"  -> IF x + y > 0 THEN 1 ELSE 0
                    [] op = "and" -> x * y
                    [] op = "xor" -> (x + y) % 2
         IN r * (2 ^ k) + BitwiseFrom(op, a, b, k + 1)

BitOr(a, b) == BitwiseFrom("or", a, b, 0)
BitAnd(a, b) == BitwiseFrom("and", a, b, 0)
BitXor(a, b) == BitwiseFrom("xor", a, b, 0)

\* u16 addition `a + b`: wraps in a build without overflow checks, panics in
\* a build with them.  oc = TRUE is the build with overflow checks.
AddU16(a, b, oc) ==
    IF a + b < U16 THEN [res |-> OK, val |-> a + b]
    ELSE IF oc THEN [res |-> PANIC, val |-> 0]
    ELSE [res |-> OK, val |-> (a + b) % U16]

(***************************************************************************)
(* Memory (emulator/memory.rs).  A memory is [data, wraparound_enabled];   *)
(* data maps the addresses of the non-zero cells to their bytes, every     *)
(* other cell is 0.                                                        *)
(***************************************************************************)
Cell(data, a) == IF a \in DOMAIN data THEN data[a] ELSE 0

SetCell(data, a, val) ==
    IF val = 0
    THEN [x \in (DOMAIN data) \ {a} |-> data[x]]
    ELSE [x \in (DOMAIN data) \cup {a} |-> IF x = a THEN val ELSE data[x]]

load_font_data(data) ==
    LET font == FONT_START .. (FONT_START + FONT_SIZE - 1)
        keep == (DOMAIN data) \ font
        nz == {a \in font : FONT_SET[a - FONT_START + 1] # 0}
    IN [x \in keep \cup nz |->
           IF x \in font THEN FONT_SET[x - FONT_START + 1] ELSE data[x]]

EmptyData == [x \in {} |-> 0]

Memory_new_with_wraparound(wraparound) ==
    [data |-> load_font_data(EmptyData), wraparound_enabled |-> wraparound]

Memory_new == Memory_new_with_wraparound(FALSE)

set_wraparound(m, enabled) == [m EXCEPT !.wraparound_enabled = enabled]

read_byte(m, address) ==
    IF m.wraparound_enabled
    THEN [res |-> OK, val |-> Cell(m.data, address % MEMORY_SIZE)]
    ELSE IF address >= MEMORY_SIZE
         THEN [res |-> Err("InvalidMemoryAccess", address), val |-> 0]
         ELSE [res |-> OK, val |-> Cell(m.data, address)]

\* variant: the bound is checked before the mode is looked at
write_byte_bounds_first(m, address, value) ==
    IF address >= MEMORY_SIZE
    THEN [m |-> m, res |-> Err("InvalidMemoryAccess", address)]
    ELSE [m |-> [m EXCEPT !.data = SetCell(m.data, address, value)],
          res |-> OK]

write_byte(m, address, value) ==
    IF m.wraparound_enabled
    THEN [m |-> [m EXCEPT !.data = SetCell(m.data, address % MEMORY_SIZE, value)],
          res |-> OK]
    ELSE IF address >= MEMORY_SIZE
         THEN [m |-> m, res |-> Err("InvalidMemoryAccess", address)]
         ELSE [m |-> [m EXCEPT !.data = SetCell(m.data, address, value)],
               res |-> OK]

read_word(m, address, oc) ==
    LET hi == read_byte(m, address)
    IN IF ~IsOk(hi.res) THEN [res |-> hi.res, val |-> 0]
       ELSE LET next == AddU16(address, 1, oc)
            IN IF ~IsOk(next.res) THEN [res |-> next.res, val |-> 0]
               ELSE LET lo == read_byte(m, next.val)
                    IN IF ~IsOk(lo.res) THEN [res |-> lo.res, val |-> 0]
                       ELSE [res |-> OK, val |-> hi.val * 256 + lo.val]

write_word(m, address, value, oc) ==
    LET high_byte == value \div 256
        low_byte == value % 256
        w1 == write_byte(m, address, high_byte)
    IN IF ~IsOk(w1.res) THEN w1
       ELSE LET next == AddU16(address, 1, oc)
            IN IF ~IsOk(next.res) THEN [m |-> w1.m, res |-> next.res]
               ELSE write_byte(w1.m, next.val, low_byte)

\* copy(): both ranges are checked against MEMORY_SIZE whatever the mode,
\* then the source bytes are taken aside and stored at the destination
copy(m, source, dest, length) ==
    IF source + length > MEMORY_SIZE
    THEN [m |-> m, res |-> Err("InvalidMemoryAccess", source)]
    ELSE IF dest + length > MEMORY_SIZE
    THEN [m |-> m, res |-> Err("InvalidMemoryAccess", dest)]
    ELSE LET temp == [k \in 1..length |-> Cell(m.data, source + k - 1)]
             touched == dest..(dest + length - 1)
             nz == {a \in touched : temp[a - dest + 1] # 0}
             keep == DOMAIN m.data \ touched
         IN [m |-> [m EXCEPT !.data =
                       [x \in keep \cup nz |->
                           IF x \in touched THEN temp[x - dest + 1]
                           ELSE m.data[x]]],
             res |-> OK]

\* variant: the bytes outside the font table are zeroed, the table is left
\* as it is
Memory_clear_keeping_font(m) ==
    [m EXCEPT !.data =
        [x \in DOMAIN m.data \cap (FONT_START .. (FONT_START + FONT_SIZE - 1)) |->
            m.data[x]]]

Memory_clear(m) == [m EXCEPT !.data = load_font_data(EmptyData)]

\* variant: the data is copied in without clearing the program area first
load_rom_at_keeping_residue(m, rom_data, start_address) ==
    IF Len(rom_data) = 0 THEN [m |-> m, res |-> Err("RomEmpty", 0)]
    ELSE IF start_address > MEMORY_SIZE THEN [m |-> m, res |-> PANIC]
    ELSE IF Len(rom_data) > MEMORY_SIZE - start_address
    THEN [m |-> m, res |-> Err("RomTooLarge", Len(rom_data))]
    ELSE LET touched == start_address..(start_address + Len(rom_data) - 1)
             keep == DOMAIN m.data \ touched
             nz == {a \in touched : rom_data[a - start_address + 1] # 0}
         IN [m |-> [m EXCEPT !.data =
                       [x \in keep \cup nz |->
                           IF x \in touched
                           THEN rom_data[x - start_address + 1]
                           ELSE m.data[x]]],
             res |-> OK]

\* load_rom_at for start addresses inside memory (start <= MEMORY_SIZE).
\* For start_address > MEMORY_SIZE the usize subtraction
\* `MEMORY_SIZE - start` underflows: a build with overflow checks panics
\* there; a build without them gets a huge available_space, skips both the
\* RomTooLarge return and the (empty) clearing loop, and panics on the slice
\* `self.data[start..end]`.  Either way the call panics with memory as it was.
Memory_load_rom_at(m, rom_data, start_address) ==
    IF Len(rom_data) = 0 THEN [m |-> m, res |-> Err("RomEmpty", 0)]
    ELSE IF start_address > MEMORY_SIZE THEN [m |-> m, res |-> PANIC]
    ELSE IF Len(rom_data) > MEMORY_SIZE - start_address
    THEN [m |-> m, res |-> Err("RomTooLarge", Len(rom_data))]
    ELSE LET keep == {a \in DOMAIN m.data : a < start_address}
             nz == {start_address + k - 1 : k \in {k \in 1..Len(rom_data) : rom_data[k] # 0}}
         IN [m |-> [m EXCEPT !.data =
                       [x \in keep \cup nz |->
                           IF x >= start_address
                           THEN rom_data[x - start_address + 1]
                           ELSE m.data[x]]],
             res |-> OK]

Memory_load_rom(m, rom_data) == Memory_load_rom_at(m, rom_data, PROGRAM_START)

get_font_address(character) ==
    IF character > 15
    THEN [res |-> Err("InvalidMemoryAccess", character), val |-> 0]
    ELSE [res |-> OK, val |-> FONT_START + character * 5]

(***************************************************************************)
(* Registers (emulator/registers.rs).  A register file is [v, i, pc, sp].  *)
(***************************************************************************)
Registers_new ==
    [v |-> [k \in 0..(NUM_REGISTERS - 1) |-> 0], i |-> 0, pc |-> 512, sp |-> 0]

get_v(r, index) ==
    IF index >= NUM_REGISTERS
    THEN [res |-> Err("InvalidRegister", index), val |-> 0]
    ELSE [res |-> OK, val |-> r.v[index]]

set_v(r, index, value) ==
    IF index >= NUM_REGISTERS
    THEN [r |-> r, res |-> Err("InvalidRegister", index)]
    ELSE [r |-> [r EXCEPT !.v[index] = value], res |-> OK]

set_flag(r, value) == [r EXCEPT !.v[FLAG_REGISTER] = value]

set_i(r, value) == [r EXCEPT !.i = value]

set_pc(r, value) == [r EXCEPT !.pc = value]

increment_pc(r) == [r EXCEPT !.pc = (r.pc + 2) % U16]

\* variant: the skip stops at the top of the 16-bit range
skip_instruction_saturating(r) ==
    [r EXCEPT !.pc = IF r.pc + 2 > U16 - 1 THEN U16 - 1 ELSE r.pc + 2]

skip_instruction(r) == [r EXCEPT !.pc = (r.pc + 2) % U16]

\* u8::overflowing_add / overflowing_sub: <<wrapped result, overflowed>>
overflowing_add(a, b) == <<(a + b) % U8, a + b >= U8>>
overflowing_sub(a, b) == <<(a - b + U8) % U8, a < b>>

\* variant: the carry is stored before the sum, so the sum survives in VF
add_with_carry_flag_first(r, vx, vy) ==
    LET val_x == get_v(r, vx)
        val_y == get_v(r, vy)
    IN IF ~IsOk(val_x.res) THEN [r |-> r, res |-> val_x.res]
       ELSE IF ~IsOk(val_y.res) THEN [r |-> r, res |-> val_y.res]
       ELSE LET ra == overflowing_add(val_x.val, val_y.val)
            IN set_v(set_flag(r, IF ra[2] THEN 1 ELSE 0), vx, ra[1])

add_with_carry(r, vx, vy) ==
    LET val_x == get_v(r, vx)
        val_y == get_v(r, vy)
    IN IF ~IsOk(val_x.res) THEN [r |-> r, res |-> val_x.res]
       ELSE IF ~IsOk(val_y.res) THEN [r |-> r, res |-> val_y.res]
       ELSE LET ra == overflowing_add(val_x.val, val_y.val)
                r1 == set_v(r, vx, ra[1])
            IN IF ~IsOk(r1.res) THEN r1
               ELSE [r |-> set_flag(r1.r, IF ra[2] THEN 1 ELSE 0), res |-> OK]

\* variant: VF reports the borrow itself instead of its absence
sub_with_borrow_flag_is_borrow(r, vx, vy) ==
    LET val_x == get_v(r, vx)
        val_y == get_v(r, vy)
    IN IF ~IsOk(val_x.res) THEN [r |-> r, res |-> val_x.res]
       ELSE IF ~IsOk(val_y.res) THEN [r |-> r, res |-> val_y.res]
       ELSE LET rs == overflowing_sub(val_x.val, val_y.val)
                r1 == set_v(r, vx, rs[1])
            IN IF ~IsOk(r1.res) THEN r1
               ELSE [r |-> set_flag(r1.r, IF rs[2] THEN 1 ELSE 0), res |-> OK]

sub_with_borrow(r, vx, vy) ==
    LET val_x == get_v(r, vx)
        val_y == get_v(r, vy)
    IN IF ~IsOk(val_x.res) THEN [r |-> r, res |-> val_x.res]
       ELSE IF ~IsOk(val_y.res) THEN [r |-> r, res |-> val_y.res]
       ELSE LET rs == overflowing_sub(val_x.val, val_y.val)
                r1 == set_v(r, vx, rs[1])
            IN IF ~IsOk(r1.res) THEN r1
               ELSE [r |-> set_flag(r1.r, IF rs[2] THEN 0 ELSE 1), res |-> OK]

sub_reverse_with_borrow(r, vx, vy) ==
    LET val_x == get_v(r, vx)
        val_y == get_v(r, vy)
    IN IF ~IsOk(val_x.res) THEN [r |-> r, res |-> val_x.res]
       ELSE IF ~IsOk(val_y.res) THEN [r |-> r, res |-> val_y.res]
       ELSE LET rs == overflowing_sub(val_y.val, val_x.val)
                r1 == set_v(r, vx, rs[1])
            IN IF ~IsOk(r1.res) THEN r1
               ELSE [r |-> set_flag(r1.r, IF rs[2] THEN 0 ELSE 1), res |-> OK]

shift_right(r, vx) ==
    LET val == get_v(r, vx)
    IN IF ~IsOk(val.res) THEN [r |-> r, res |-> val.res]
       ELSE LET lsb == val.val % 2
                r1 == set_v(r, vx, val.val \div 2)
            IN IF ~IsOk(r1.res) THEN r1
               ELSE [r |-> set_flag(r1.r, lsb), res |-> OK]

\* variant: the flag is taken from the shifted value
shift_left_flag_after_shift(r, vx) ==
    LET val == get_v(r, vx)
    IN IF ~IsOk(val.res) THEN [r |-> r, res |-> val.res]
       ELSE LET shifted == (val.val * 2) % U8
                r1 == set_v(r, vx, shifted)
            IN IF ~IsOk(r1.res) THEN r1
               ELSE [r |-> set_flag(r1.r, (shifted \div 128) % 2), res |-> OK]

shift_left(r, vx) ==
    LET val == get_v(r, vx)
    IN IF ~IsOk(val.res) THEN [r |-> r, res |-> val.res]
       ELSE LET msb == (val.val \div 128) % 2
                r1 == set_v(r, vx, (val.val * 2) % U8)
            IN IF ~IsOk(r1.res) THEN r1
               ELSE [r |-> set_flag(r1.r, msb), res |-> OK]

(***************************************************************************)
(* Stack (emulator/stack.rs).  A stack is [data, sp].                      *)
(***************************************************************************)
Stack_new == [data |-> [k \in 0..(STACK_SIZE - 1) |-> 0], sp |-> 0]

\* variant: the last slot is never used
push_one_slot_short(s, value) ==
    IF s.sp >= STACK_SIZE - 1
    THEN [s |-> s, res |-> Err("StackOverflow", 0)]
    ELSE [s |-> [data |-> [s.data EXCEPT ![s.sp] = value], sp |-> s.sp + 1],
          res |-> OK]

push(s, value) ==
    IF s.sp >= STACK_SIZE
    THEN [s |-> s, res |-> Err("StackOverflow", 0)]
    ELSE [s |-> [data |-> [s.data EXCEPT ![s.sp] = value], sp |-> s.sp + 1],
          res |-> OK]

pop(s) ==
    IF s.sp = 0
    THEN [s |-> s, res |-> Err("StackUnderflow", 0), val |-> 0]
    ELSE [s |-> [data |-> [s.data EXCEPT ![s.sp - 1] = 0], sp |-> s.sp - 1],
          res |-> OK, val |-> s.data[s.sp - 1]]

peek(s) ==
    IF s.sp = 0
    THEN [s |-> s, res |-> Err("StackUnderflow", 0), val |-> 0]
    ELSE [s |-> s, res |-> OK, val |-> s.data[s.sp - 1]]

depth(s) == s.sp

get_contents(s) == [k \in 1..s.sp |-> s.data[k - 1]]

(***************************************************************************)
(* Timers (emulator/timers.rs).  A timer pair is [delay_timer,             *)
(* sound_timer]; the wall clock is the environment, which decides how many *)
(* whole timer periods have accumulated when update() runs.                *)
(***************************************************************************)
Timers_new == [delay_timer |-> 0, sound_timer |-> 0]

\* variant: a tick is a wrapping decrement of both timers
RECURSIVE update_by_ticks_wrapping(_, _)
update_by_ticks_wrapping(t, ticks) ==
    IF ticks = 0 THEN t
    ELSE update_by_ticks_wrapping(
             [delay_timer |-> (t.delay_timer + 255) % 256,
              sound_timer |-> (t.sound_timer + 255) % 256],
             ticks - 1)

RECURSIVE update_by_ticks(_, _)
update_by_ticks(t, ticks) ==
    IF ticks = 0 THEN t
    ELSE update_by_ticks(
             [delay_timer |-> IF t.delay_timer > 0 THEN t.delay_timer - 1 ELSE 0,
              sound_timer |-> IF t.sound_timer > 0 THEN t.sound_timer - 1 ELSE 0],
             ticks - 1)

Timers_update(t, periods) == update_by_ticks(t, periods)

set_delay_timer(t, value) == [t EXCEPT !.delay_timer = value]
set_sound_timer(t, value) == [t EXCEPT !.sound_timer = value]

(***************************************************************************)
(* Audio (hardware/audio.rs, the Audio trait as Cpu::cycle uses it).  A    *)
(* sink is [attached, playing, failing, called]: attached = FALSE is       *)
(* Cpu.audio = None; playing is what is_playing() answers; failing says    *)
(* whether the sink's calls return Err (AudioSystem::play_beep and         *)
(* stop_beep return the buzzer's or the stream's error before they change  *)
(* is_playing); called names the call cycle() made to the sink in the last *)
(* cycle, "none" when it made none.                                        *)
(***************************************************************************)
NoAudio ==
    [attached |-> FALSE, playing |-> FALSE, failing |-> FALSE, called |-> "none"]

SoftwareAudio_new ==
    [attached |-> TRUE, playing |-> FALSE, failing |-> FALSE, called |-> "none"]

play_beep(a) ==
    IF a.failing
    THEN [a |-> [a EXCEPT !.called = "play_beep"],
          res |-> Err("AudioError", 0)]
    ELSE [a |-> [a EXCEPT !.called = "play_beep", !.playing = TRUE], res |-> OK]

stop_beep(a) ==
    IF a.failing
    THEN [a |-> [a EXCEPT !.called = "stop_beep"],
          res |-> Err("AudioError", 0)]
    ELSE [a |-> [a EXCEPT !.called = "stop_beep", !.playing = FALSE], res |-> OK]

(***************************************************************************)
(* The audio system (audio/buzzer.rs, audio/stream.rs).  An AudioBuzzer is *)
(* [config, phase, playing, state, lock]: state is the BuzzerState behind   *)
(* Arc<Mutex<..>> that the stream's callback shares, lock is that mutex     *)
(* ([holder, poisoned]).  The f32 quantities are kept on a grid: a phase p  *)
(* stands for p / PhaseUnit of a period, a frequency f for f / PhaseUnit    *)
(* of the sample rate, a volume w for w / VolumeUnit, and an f32 sample s   *)
(* for s / VolumeUnit.                                                      *)
(***************************************************************************)
PhaseUnit == 4
VolumeUnit == 10

\* BuzzerConfig::default(): the tone and 30% volume
BuzzerConfig_default == [frequency |-> 1, volume |-> 3]

Unlocked == [holder |-> "none", poisoned |-> FALSE]

AudioBuzzer_new(config) ==
    [config |-> config, phase |-> 0, playing |-> FALSE,
     state |-> [frequency |-> config.frequency, volume |-> config.volume,
                playing |-> FALSE, phase |-> 0],
     lock |-> Unlocked]

\* `phase += frequency / sample_rate; if phase >= 1.0 { phase -= 1.0 }`
NextPhase(phase, frequency) ==
    IF phase + frequency >= PhaseUnit THEN phase + frequency - PhaseUnit
    ELSE phase + frequency

\* f32::clamp(0.0, 1.0)
ClampVolume(volume) ==
    IF volume < 0 THEN 0 ELSE IF volume > VolumeUnit THEN VolumeUnit ELSE volume

\* Each method of the buzzer first updates the buzzer's own fields and then,
\* if `self.state.lock()` is Ok, the shared state: name(b, ..) is the first
\* part, name_locked(b) the part under the lock.
start_tone(b) == [b EXCEPT !.playing = TRUE, !.phase = 0]
start_tone_locked(b) == [b EXCEPT !.state.playing = TRUE, !.state.phase = 0]

stop_tone(b) == [b EXCEPT !.playing = FALSE]
stop_tone_locked(b) == [b EXCEPT !.state.playing = FALSE]

set_volume(b, volume) == [b EXCEPT !.config.volume = ClampVolume(volume)]
set_volume_locked(b) == [b EXCEPT !.state.volume = b.config.volume]

set_frequency(b, frequency) ==
    IF frequency < 0 THEN [b |-> b, res |-> Err("InitializationFailed", 0)]
    ELSE [b |-> [b EXCEPT !.config.frequency = frequency], res |-> OK]
set_frequency_locked(b) == [b EXCEPT !.state.frequency = b.config.frequency]

\* next_sample(): nothing while the buzzer is not playing; otherwise a sample
\* is generated and advance_phase() moves the buzzer's own phase ...
advance_phase(b) == [b EXCEPT !.phase = NextPhase(b.phase, b.config.frequency)]
\* ... and copies it into the shared state
advance_phase_locked(b) == [b EXCEPT !.state.phase = b.phase]

\* the part of the method `op` that runs under the lock
Locked(b, op) ==
    CASE op = "start_tone" -> start_tone_locked(b)
      [] op = "stop_tone" -> stop_tone_locked(b)
      [] op = "set_volume" -> set_volume_locked(b)
      [] op = "set_frequency" -> set_frequency_locked(b)
      [] op = "next_sample" -> advance_phase_locked(b)

\* (phase * 2.0 * PI).sin() at the four phases of the grid
Sine(phase) == << 0, 1, 0, -1 >>[phase + 1]

\* `as i16` / `as u16` of a quotient: truncation toward zero
Truncated(n, d) == IF n >= 0 THEN n \div d ELSE -((-n) \div d)

\* the sample a playing buzzer produces, in the stream's format
Sample(state, format) ==
    LET float_sample == Sine(state.phase) * state.volume
    IN CASE format = "F32" -> float_sample
         [] format = "I16" -> Truncated(float_sample * (U16 \div 2 - 1), VolumeUnit)
         [] format = "U16" -> Truncated((float_sample + VolumeUnit) * (U16 - 1),
                                        2 * VolumeUnit)

\* the sample of a buzzer that is not playing
Idle(format) ==
    CASE format = "F32" -> 0
      [] format = "I16" -> 0
      [] format = "U16" -> (U16 - 1) \div 2

\* the indices of data that chunks_mut(channels) puts in frame number k
Frame(data, channels, k) ==
    {n \in DOMAIN data : (n - 1) \div channels = k - 1}

Frames(data, channels) == (Len(data) + channels - 1) \div channels

\* one iteration of the loop of fill_f32_buffer / fill_i16_buffer /
\* fill_u16_buffer over the frames of data, the lock held
fill_frame(state, data, format, channels, k) ==
    LET sample == IF state.playing THEN Sample(state, format) ELSE Idle(format)
    IN [state |-> IF state.playing
                  THEN [state EXCEPT !.phase = NextPhase(state.phase, state.frequency)]
                  ELSE state,
        data |-> [n \in DOMAIN data |->
                    IF n \in Frame(data, channels, k) THEN sample ELSE data[n]]]

\* variant: every format is filled with 0
fill_silence_zero(data, format) == [n \in DOMAIN data |-> 0]

\* the else branch of the three fill functions: data.fill(0.0), data.fill(0),
\* data.fill(u16::MAX / 2)
fill_silence(data, format) ==
    [n \in DOMAIN data |->
        CASE format = "F32" -> 0
          [] format = "I16" -> 0
          [] format = "U16" -> (U16 - 1) \div 2]

\* AudioSystem::new(): a buzzer, no stream, nothing calling
EngineIdle == [pc |-> "idle", op |-> "none"]
NoStream == [pc |-> "none", format |-> "F32", channels |-> 1, data |-> << >>,
             frame |-> 0, poisoned |-> FALSE]

AudioSystem_unused ==
    /\ buzzer = AudioBuzzer_new(BuzzerConfig_default)
    /\ engine_thread = EngineIdle
    /\ audio_thread = NoStream

(***************************************************************************)
(* Display (hardware/display.rs, SoftwareDisplay).  A display is           *)
(* [attached, pixels, dirty]; pixels is the set of buffer indices that are *)
(* on.  attached = FALSE is Cpu.display = None.                            *)
(***************************************************************************)
DISPLAY_WIDTH == 64
DISPLAY_HEIGHT == 32

NoDisplay == [attached |-> FALSE, pixels |-> {}, dirty |-> FALSE]
SoftwareDisplay_new == [attached |-> TRUE, pixels |-> {}, dirty |-> FALSE]

\* u8 addition `a + b` (see AddU16)
AddU8(a, b, oc) ==
    IF a + b < U8 THEN [res |-> OK, val |-> a + b]
    ELSE IF oc THEN [res |-> PANIC, val |-> 0]
    ELSE [res |-> OK, val |-> (a + b) % U8]

\* variant: the collision flag follows the last toggled cell only
RECURSIVE draw_cols_last_cell_wins(_, _, _, _, _, _, _)
draw_cols_last_cell_wins(pixels, x, pixel_y, sprite_byte, col, collision, oc) ==
    IF col = 8 THEN [pixels |-> pixels, res |-> OK, val |-> collision]
    ELSE LET sum == AddU8(x, col, oc)
         IN IF ~IsOk(sum.res)
            THEN [pixels |-> pixels, res |-> sum.res, val |-> collision]
            ELSE LET pixel_x == sum.val % DISPLAY_WIDTH
                     sprite_pixel == Bit(sprite_byte, 7 - col)
                     index == pixel_y * DISPLAY_WIDTH + pixel_x
                 IN IF sprite_pixel = 1
                    THEN IF index \in pixels
                         THEN draw_cols_last_cell_wins(pixels \ {index}, x,
                                  pixel_y, sprite_byte, col + 1, TRUE, oc)
                         ELSE draw_cols_last_cell_wins(pixels \cup {index}, x,
                                  pixel_y, sprite_byte, col + 1, FALSE, oc)
                    ELSE draw_cols_last_cell_wins(pixels, x, pixel_y,
                             sprite_byte, col + 1, collision, oc)

\* the inner `for col in 0..8` loop of draw_sprite, from column col on
RECURSIVE draw_cols(_, _, _, _, _, _, _)
draw_cols(pixels, x, pixel_y, sprite_byte, col, collision, oc) ==
    IF col = 8 THEN [pixels |-> pixels, res |-> OK, val |-> collision]
    ELSE LET sum == AddU8(x, col, oc)
         IN IF ~IsOk(sum.res)
            THEN [pixels |-> pixels, res |-> sum.res, val |-> collision]
            ELSE LET pixel_x == sum.val % DISPLAY_WIDTH
                     sprite_pixel == Bit(sprite_byte, 7 - col)
                     index == pixel_y * DISPLAY_WIDTH + pixel_x
                 IN IF sprite_pixel = 1
                    THEN IF index \in pixels
                         THEN draw_cols(pixels \ {index}, x, pixel_y,
                                        sprite_byte, col + 1, TRUE, oc)
                         ELSE draw_cols(pixels \cup {index}, x, pixel_y,
                                        sprite_byte, col + 1, collision, oc)
                    ELSE draw_cols(pixels, x, pixel_y, sprite_byte, col + 1,
                                   collision, oc)

\* the outer `for (row, &sprite_byte)` loop of draw_sprite, from row `row` on
RECURSIVE draw_rows(_, _, _, _, _, _, _)
draw_rows(pixels, x, y, sprite, row, collision, oc) ==
    IF row = Len(sprite) THEN [pixels |-> pixels, res |-> OK, val |-> collision]
    ELSE LET sum == AddU8(y, row, oc)
         IN IF ~IsOk(sum.res)
            THEN [pixels |-> pixels, res |-> sum.res, val |-> collision]
            ELSE LET r == draw_cols(pixels, x, sum.val % DISPLAY_HEIGHT,
                                    sprite[row + 1], 0, collision, oc)
                 IN IF ~IsOk(r.res) THEN r
                    ELSE draw_rows(r.pixels, x, y, sprite, row + 1, r.val, oc)

draw_sprite(d, x, y, sprite, oc) ==
    LET r == draw_rows(d.pixels, x, y, sprite, 0, FALSE, oc)
    IN [d |-> [d EXCEPT !.pixels = r.pixels,
                        !.dirty = IF IsOk(r.res) /\ Len(sprite) > 0
                                  THEN TRUE ELSE d.dirty],
        res |-> r.res, val |-> r.val]

Display_clear(d) == [d EXCEPT !.pixels = {}, !.dirty = TRUE]

(***************************************************************************)
(* Input (hardware/input.rs).  An input source is [attached, pressed];     *)
(* attached = FALSE is Cpu.input = None.                                   *)
(***************************************************************************)
ChipKey_from_u8(value) == IF value \in 0..15 THEN value ELSE None

is_key_pressed(inp, key) == key \in inp.pressed

get_first_pressed_key(inp) ==
    IF inp.pressed = {} THEN None
    ELSE CHOOSE k \in inp.pressed : \A j \in inp.pressed : k <= j

(***************************************************************************)
(* Cpu (emulator/cpu.rs).  A cpu is the record of its components; the      *)
(* instruction handlers return [c, res].                                   *)
(***************************************************************************)
Cpu_new_with_config(memory_wraparound) ==
    [registers |-> Registers_new,
     memory |-> Memory_new_with_wraparound(memory_wraparound),
     stack |-> Stack_new,
     timers |-> Timers_new,
     instruction_count |-> 0,
     waiting_for_key |-> FALSE,
     key_wait_register |-> 0,
     waiting_for_key_release |-> None,
     display |-> NoDisplay,
     audio |-> NoAudio]

Cpu_new == Cpu_new_with_config(FALSE)

Cpu_reset(c) ==
    [c EXCEPT !.registers = Registers_new,
              !.memory = Memory_clear(c.memory),
              !.stack = Stack_new,
              !.timers = Timers_new,
              !.instruction_count = 0,
              !.waiting_for_key = FALSE,
              !.key_wait_register = 0,
              !.waiting_for_key_release = None]

\* variant: the PC is moved before the result of the load is looked at
load_rom_at_pc_first(c, rom_data, start_address) ==
    LET l == Memory_load_rom_at(c.memory, rom_data, start_address)
    IN [c |-> [c EXCEPT !.memory = l.m,
                        !.registers = set_pc(c.registers, start_address)],
        res |-> l.res]

Cpu_load_rom_at(c, rom_data, start_address) ==
    LET l == Memory_load_rom_at(c.memory, rom_data, start_address)
    IN IF ~IsOk(l.res) THEN [c |-> c, res |-> l.res]
       ELSE [c |-> [c EXCEPT !.memory = l.m,
                             !.registers = set_pc(c.registers, start_address)],
             res |-> OK]

Cpu_load_rom(c, rom_data) ==
    LET l == Memory_load_rom(c.memory, rom_data)
    IN IF ~IsOk(l.res) THEN [c |-> c, res |-> l.res]
       ELSE [c |-> [c EXCEPT !.memory = l.m,
                             !.registers = set_pc(c.registers, PROGRAM_START)],
             res |-> OK]

\* variant: the key is recorded whether or not the CPU waits
handle_key_press_unguarded(c, key) ==
    IF key <= 15 /\ c.waiting_for_key_release = None
    THEN [c EXCEPT !.waiting_for_key_release = key]
    ELSE c

handle_key_press(c, key) ==
    IF ~c.waiting_for_key THEN c
    ELSE IF key <= 15 /\ c.waiting_for_key_release = None
         THEN [c EXCEPT !.waiting_for_key_release = key]
         ELSE c

\* the snapshot handed to debuggers
get_state(c) ==
    [pc |-> c.registers.pc,
     sp |-> c.registers.sp,
     i |-> c.registers.i,
     v |-> c.registers.v,
     delay_timer |-> c.timers.delay_timer,
     sound_timer |-> c.timers.sound_timer,
     stack_contents |-> get_contents(c.stack),
     instruction_count |-> c.instruction_count]

\* `let val = self.registers.get_v(x)?; body(val)`
WithV(c, x, Body(_)) ==
    LET g == get_v(c.registers, x)
    IN IF ~IsOk(g.res) THEN [c |-> c, res |-> g.res] ELSE Body(g.val)

\* a handler whose body is one call on the register file
OnRegisters(c, rr) == [c |-> [c EXCEPT !.registers = rr.r], res |-> rr.res]

cls(c) ==
    [c |-> IF c.display.attached
           THEN [c EXCEPT !.display = Display_clear(c.display)] ELSE c,
     res |-> OK]

ret(c) ==
    LET p == pop(c.stack)
    IN IF ~IsOk(p.res) THEN [c |-> c, res |-> p.res]
       ELSE [c |-> [c EXCEPT !.stack = p.s,
                             !.registers = set_pc(c.registers, p.val)],
             res |-> OK]

jp(c, addr) == [c |-> [c EXCEPT !.registers = set_pc(c.registers, addr)], res |-> OK]

\* variant: the address of the call itself is pushed
call_pushing_own_address(c, addr) ==
    LET p == push(c.stack, (c.registers.pc + U16 - 2) % U16)
    IN IF ~IsOk(p.res) THEN [c |-> c, res |-> p.res]
       ELSE [c |-> [c EXCEPT !.stack = p.s,
                             !.registers = set_pc(c.registers, addr)],
             res |-> OK]

call(c, addr) ==
    LET p == push(c.stack, c.registers.pc)
    IN IF ~IsOk(p.res) THEN [c |-> c, res |-> p.res]
       ELSE [c |-> [c EXCEPT !.stack = p.s,
                             !.registers = set_pc(c.registers, addr)],
             res |-> OK]

SkipIf(c, cond) ==
    [c |-> IF cond THEN [c EXCEPT !.registers = skip_instruction(c.registers)] ELSE c,
     res |-> OK]

se_vx_nn(c, x, nn) == WithV(c, x, LAMBDA vx : SkipIf(c, vx = nn))

sne_vx_nn(c, x, nn) == WithV(c, x, LAMBDA vx : SkipIf(c, vx # nn))

se_vx_vy(c, x, y) ==
    WithV(c, x, LAMBDA vx : WithV(c, y, LAMBDA vy : SkipIf(c, vx = vy)))

sne_vx_vy(c, x, y) ==
    WithV(c, x, LAMBDA vx : WithV(c, y, LAMBDA vy : SkipIf(c, vx # vy)))

ld_vx_nn(c, x, nn) == OnRegisters(c, set_v(c.registers, x, nn))

\* variant: the addition reports its carry in VF
add_vx_nn_with_carry(c, x, nn) ==
    WithV(c, x, LAMBDA vx :
        LET s1 == set_v(c.registers, x, (vx + nn) % U8)
        IN OnRegisters(c, set_v(s1.r, FLAG_REGISTER, IF vx + nn >= U8 THEN 1 ELSE 0)))

add_vx_nn(c, x, nn) ==
    WithV(c, x, LAMBDA vx : OnRegisters(c, set_v(c.registers, x, (vx + nn) % U8)))

ld_vx_vy(c, x, y) ==
    WithV(c, y, LAMBDA vy : OnRegisters(c, set_v(c.registers, x, vy)))

or_vx_vy(c, x, y) ==
    WithV(c, x, LAMBDA vx : WithV(c, y, LAMBDA vy :
        OnRegisters(c, set_v(c.registers, x, BitOr(vx, vy)))))

and_vx_vy(c, x, y) ==
    WithV(c, x, LAMBDA vx : WithV(c, y, LAMBDA vy :
        OnRegisters(c, set_v(c.registers, x, BitAnd(vx, vy)))))

xor_vx_vy(c, x, y) ==
    WithV(c, x, LAMBDA vx : WithV(c, y, LAMBDA vy :
        OnRegisters(c, set_v(c.registers, x, BitXor(vx, vy)))))

add_vx_vy(c, x, y) == OnRegisters(c, add_with_carry(c.registers, x, y))

sub_vx_vy(c, x, y) == OnRegisters(c, sub_with_borrow(c.registers, x, y))

shr_vx(c, x) == OnRegisters(c, shift_right(c.registers, x))

subn_vx_vy(c, x, y) == OnRegisters(c, sub_reverse_with_borrow(c.registers, x, y))

shl_vx(c, x) == OnRegisters(c, shift_left(c.registers, x))

ld_i_nnn(c, nnn) == [c |-> [c EXCEPT !.registers = set_i(c.registers, nnn)], res |-> OK]

jp_v0_nnn(c, nnn) ==
    WithV(c, 0, LAMBDA v0 :
        [c |-> [c EXCEPT !.registers = set_pc(c.registers, nnn + v0)], res |-> OK])

rnd_vx_nn(c, x, nn, random_byte) ==
    OnRegisters(c, set_v(c.registers, x, BitAnd(random_byte, nn)))

\* the sprite rows Dxyn collects: one byte per address below MEMORY_SIZE
sprite_rows(c, sprite_addr, n) ==
    LET cnt == IF sprite_addr >= MEMORY_SIZE THEN 0
               ELSE IF sprite_addr + n <= MEMORY_SIZE THEN n
               ELSE MEMORY_SIZE - sprite_addr
    IN [k \in 1..cnt |-> read_byte(c.memory, sprite_addr + k - 1).val]

\* variant: VF is only ever raised, a draw without collision leaves it alone
drw_flag_only_raised(c, x, y, n, oc) ==
    WithV(c, x, LAMBDA x_pos : WithV(c, y, LAMBDA y_pos :
        IF c.display.attached
        THEN LET sprite_data == sprite_rows(c, c.registers.i, n)
                 d == draw_sprite(c.display, x_pos, y_pos, sprite_data, oc)
             IN IF d.res = PANIC
                THEN [c |-> [c EXCEPT !.display = d.d], res |-> PANIC]
                ELSE [c |-> [c EXCEPT
                               !.display = d.d,
                               !.registers = IF IsOk(d.res) /\ d.val
                                             THEN set_flag(c.registers, 1)
                                             ELSE c.registers],
                      res |-> OK]
        ELSE [c |-> c, res |-> OK]))

drw(c, x, y, n, oc) ==
    WithV(c, x, LAMBDA x_pos : WithV(c, y, LAMBDA y_pos :
        IF c.display.attached
        THEN LET sprite_data == sprite_rows(c, c.registers.i, n)
                 d == draw_sprite(c.display, x_pos, y_pos, sprite_data, oc)
             IN IF d.res = PANIC
                THEN [c |-> [c EXCEPT !.display = d.d], res |-> PANIC]
                ELSE LET collision == IF IsOk(d.res) THEN d.val ELSE FALSE
                     IN [c |-> [c EXCEPT
                                  !.display = d.d,
                                  !.registers = set_flag(c.registers,
                                                  IF collision THEN 1 ELSE 0)],
                         res |-> OK]
        ELSE [c |-> [c EXCEPT !.registers = set_flag(c.registers, 0)],
              res |-> OK]))

\* `self.registers.set_pc(self.registers.get_pc() + 2)`
SetPcPlus2(c, oc) ==
    LET sum == AddU16(c.registers.pc, 2, oc)
    IN IF ~IsOk(sum.res) THEN [c |-> c, res |-> sum.res]
       ELSE [c |-> [c EXCEPT !.registers = set_pc(c.registers, sum.val)],
             res |-> OK]

skp_vx(c, inp, x, oc) ==
    WithV(c, x, LAMBDA key_value :
        IF inp.attached /\ ChipKey_from_u8(key_value) # None
                        /\ is_key_pressed(inp, key_value)
        THEN SetPcPlus2(c, oc)
        ELSE [c |-> c, res |-> OK])

sknp_vx(c, inp, x, oc) ==
    WithV(c, x, LAMBDA key_value :
        IF inp.attached
        THEN IF ChipKey_from_u8(key_value) # None
                /\ ~is_key_pressed(inp, key_value)
             THEN SetPcPlus2(c, oc)
             ELSE [c |-> c, res |-> OK]
        ELSE SetPcPlus2(c, oc))

ld_vx_dt(c, x) == OnRegisters(c, set_v(c.registers, x, c.timers.delay_timer))

ld_vx_k(c, x) ==
    [c |-> [c EXCEPT !.waiting_for_key = TRUE, !.key_wait_register = x],
     res |-> OK]

ld_dt_vx(c, x) ==
    WithV(c, x, LAMBDA vx :
        [c |-> [c EXCEPT !.timers = set_delay_timer(c.timers, vx)], res |-> OK])

\* variant: the sound timer is loaded into the delay timer as well
ld_st_vx_both(c, x) ==
    WithV(c, x, LAMBDA vx :
        [c |-> [c EXCEPT !.timers =
                   set_delay_timer(set_sound_timer(c.timers, vx), vx)],
         res |-> OK])

ld_st_vx(c, x) ==
    WithV(c, x, LAMBDA vx :
        [c |-> [c EXCEPT !.timers = set_sound_timer(c.timers, vx)], res |-> OK])

\* variant: the flag is the carry out of the 16-bit addition
add_i_vx_carry_16(c, x) ==
    WithV(c, x, LAMBDA vx :
        LET result == (c.registers.i + vx) % U16
            r1 == set_flag(c.registers, IF c.registers.i + vx > U16 - 1 THEN 1 ELSE 0)
        IN [c |-> [c EXCEPT !.registers = set_i(r1, result)], res |-> OK])

add_i_vx(c, x) ==
    WithV(c, x, LAMBDA vx :
        LET result == (c.registers.i + vx) % U16
            r1 == set_flag(c.registers, IF result > 4095 THEN 1 ELSE 0)
        IN [c |-> [c EXCEPT !.registers = set_i(r1, result)], res |-> OK])

ld_f_vx(c, x) ==
    WithV(c, x, LAMBDA vx :
        LET f == get_font_address(vx % 16)
        IN IF ~IsOk(f.res) THEN [c |-> c, res |-> f.res]
           ELSE [c |-> [c EXCEPT !.registers = set_i(c.registers, f.val)],
                 res |-> OK])

\* `self.memory.write_byte(base + off, value)?` followed by Rest on success
WriteAt(c, base, off, value, oc, Rest(_)) ==
    LET sum == AddU16(base, off, oc)
    IN IF ~IsOk(sum.res) THEN [c |-> c, res |-> sum.res]
       ELSE LET w == write_byte(c.memory, sum.val, value)
            IN IF ~IsOk(w.res) THEN [c |-> c, res |-> w.res]
               ELSE Rest([c EXCEPT !.memory = w.m])

ld_b_vx(c, x, oc) ==
    WithV(c, x, LAMBDA vx :
        LET base == c.registers.i
            hundreds == vx \div 100
            tens == (vx \div 10) % 10
            ones == vx % 10
        IN WriteAt(c, base, 0, hundreds, oc, LAMBDA c1 :
           WriteAt(c1, base, 1, tens, oc, LAMBDA c2 :
           WriteAt(c2, base, 2, ones, oc, LAMBDA c3 :
               [c |-> c3, res |-> OK]))))

\* the `for reg in 0..=x` loop of ld_i_vx, from register reg on
RECURSIVE ld_i_vx_from(_, _, _, _)
ld_i_vx_from(c, x, reg, oc) ==
    IF reg > x THEN [c |-> c, res |-> OK]
    ELSE WithV(c, reg, LAMBDA value :
             WriteAt(c, c.registers.i, reg, value, oc, LAMBDA c1 :
                 ld_i_vx_from(c1, x, reg + 1, oc)))

\* variant: the whole range is checked before anything is stored
ld_i_vx_all_or_nothing(c, x, oc) ==
    IF ~c.memory.wraparound_enabled /\ c.registers.i + x >= MEMORY_SIZE
    THEN [c |-> c, res |-> Err("InvalidMemoryAccess", c.registers.i + x)]
    ELSE ld_i_vx_from(c, x, 0, oc)

ld_i_vx(c, x, oc) == ld_i_vx_from(c, x, 0, oc)

\* the `for reg in 0..=x` loop of ld_vx_i, from register reg on
RECURSIVE ld_vx_i_from(_, _, _, _)
ld_vx_i_from(c, x, reg, oc) ==
    IF reg > x THEN [c |-> c, res |-> OK]
    ELSE LET sum == AddU16(c.registers.i, reg, oc)
         IN IF ~IsOk(sum.res) THEN [c |-> c, res |-> sum.res]
            ELSE LET b == read_byte(c.memory, sum.val)
                 IN IF ~IsOk(b.res) THEN [c |-> c, res |-> b.res]
                    ELSE LET s1 == set_v(c.registers, reg, b.val)
                         IN IF ~IsOk(s1.res) THEN [c |-> c, res |-> s1.res]
                            ELSE ld_vx_i_from([c EXCEPT !.registers = s1.r],
                                              x, reg + 1, oc)

ld_vx_i(c, x, oc) == ld_vx_i_from(c, x, 0, oc)

\* variant: the second nibble is not masked
Nibbles_second_unmasked(instruction) ==
    << (instruction \div 4096) % 16, instruction \div 256,
       (instruction \div 16) % 16, instruction % 16 >>

\* variant: the third nibble is not masked
Nibbles_third_unmasked(instruction) ==
    << (instruction \div 4096) % 16, (instruction \div 256) % 16,
       instruction \div 16, instruction % 16 >>

\* the four nibbles of an instruction word
Nibbles(instruction) ==
    << (instruction \div 4096) % 16, (instruction \div 256) % 16,
       (instruction \div 16) % 16, instruction % 16 >>

execute_instruction(c, inp, instruction, random_byte, oc) ==
    LET nibbles == Nibbles(instruction)
        n1 == nibbles[1]
        nnn == instruction % 4096
        nn == instruction % 256
        x == nibbles[2]
        y == nibbles[3]
        n == nibbles[4]
    IN CASE n1 = 0 /\ x = 0 /\ y = 14 /\ n = 0 -> cls(c)
         [] n1 = 0 /\ x = 0 /\ y = 14 /\ n = 14 -> ret(c)
         [] n1 = 0 /\ ~(x = 0 /\ y = 14 /\ n \in {0, 14}) -> [c |-> c, res |-> OK]
         [] n1 = 1 -> jp(c, nnn)
         [] n1 = 2 -> call(c, nnn)
         [] n1 = 3 -> WithV(c, x, LAMBDA vx_val : se_vx_nn(c, x, nn))
         [] n1 = 4 -> sne_vx_nn(c, x, nn)
         [] n1 = 5 /\ n = 0 -> se_vx_vy(c, x, y)
         [] n1 = 6 -> ld_vx_nn(c, x, nn)
         [] n1 = 7 -> add_vx_nn(c, x, nn)
         [] n1 = 8 /\ n = 0 -> ld_vx_vy(c, x, y)
         [] n1 = 8 /\ n = 1 -> or_vx_vy(c, x, y)
         [] n1 = 8 /\ n = 2 -> and_vx_vy(c, x, y)
         [] n1 = 8 /\ n = 3 -> xor_vx_vy(c, x, y)
         [] n1 = 8 /\ n = 4 -> add_vx_vy(c, x, y)
         [] n1 = 8 /\ n = 5 -> sub_vx_vy(c, x, y)
         [] n1 = 8 /\ n = 6 -> shr_vx(c, x)
         [] n1 = 8 /\ n = 7 -> subn_vx_vy(c, x, y)
         [] n1 = 8 /\ n = 14 -> shl_vx(c, x)
         [] n1 = 9 /\ n = 0 -> sne_vx_vy(c, x, y)
         [] n1 = 10 -> ld_i_nnn(c, nnn)
         [] n1 = 11 -> jp_v0_nnn(c, nnn)
         [] n1 = 12 -> rnd_vx_nn(c, x, nn, random_byte)
         [] n1 = 13 -> drw(c, x, y, n, oc)
         [] n1 = 14 /\ y = 9 /\ n = 14 -> skp_vx(c, inp, x, oc)
         [] n1 = 14 /\ y = 10 /\ n = 1 -> sknp_vx(c, inp, x, oc)
         [] n1 = 15 /\ y = 0 /\ n = 7 -> ld_vx_dt(c, x)
         [] n1 = 15 /\ y = 0 /\ n = 10 -> ld_vx_k(c, x)
         [] n1 = 15 /\ y = 1 /\ n = 5 -> ld_dt_vx(c, x)
         [] n1 = 15 /\ y = 1 /\ n = 8 -> ld_st_vx(c, x)
         [] n1 = 15 /\ y = 1 /\ n = 14 -> add_i_vx(c, x)
         [] n1 = 15 /\ y = 2 /\ n = 9 -> ld_f_vx(c, x)
         [] n1 = 15 /\ y = 3 /\ n = 3 -> ld_b_vx(c, x, oc)
         [] n1 = 15 /\ y = 5 /\ n = 5 -> ld_i_vx(c, x, oc)
         [] n1 = 15 /\ y = 6 /\ n = 5 -> ld_vx_i(c, x, oc)
         [] OTHER -> [c |-> c, res |-> Err("UnknownInstruction", instruction)]

\* the audio step of cycle(): with a sink attached, play_beep when the
\* sound timer is above 0 and stop_beep otherwise; an Err from the sink is
\* logged and cycle() goes on
cycle_audio(c) ==
    IF c.audio.attached
    THEN IF c.timers.sound_timer > 0
         THEN [c EXCEPT !.audio = play_beep(c.audio).a]
         ELSE [c EXCEPT !.audio = stop_beep(c.audio).a]
    ELSE c

\* variant: the cycle that sees the release also steps over an instruction
cycle_key_wait_advancing(c, inp) ==
    IF inp.attached
    THEN IF c.waiting_for_key_release # None
         THEN LET waiting_key == c.waiting_for_key_release
              IN IF ChipKey_from_u8(waiting_key) # None
                    /\ ~is_key_pressed(inp, waiting_key)
                 THEN LET s1 == set_v(c.registers, c.key_wait_register, waiting_key)
                      IN IF ~IsOk(s1.res) THEN [c |-> c, res |-> s1.res]
                         ELSE [c |-> [c EXCEPT !.registers = increment_pc(s1.r),
                                               !.waiting_for_key = FALSE,
                                               !.waiting_for_key_release = None],
                               res |-> OK]
                 ELSE [c |-> c, res |-> OK]
         ELSE LET pressed_key == get_first_pressed_key(inp)
              IN IF pressed_key # None
                 THEN [c |-> [c EXCEPT !.waiting_for_key_release = pressed_key],
                       res |-> OK]
                 ELSE [c |-> c, res |-> OK]
    ELSE [c |-> c, res |-> OK]

\* variant: the wait is resolved by the press, without awaiting the release
cycle_key_wait_on_press(c, inp) ==
    IF inp.attached
    THEN LET pressed_key == get_first_pressed_key(inp)
         IN IF pressed_key # None
            THEN LET s1 == set_v(c.registers, c.key_wait_register, pressed_key)
                 IN IF ~IsOk(s1.res) THEN [c |-> c, res |-> s1.res]
                    ELSE [c |-> [c EXCEPT !.registers = s1.r,
                                          !.waiting_for_key = FALSE,
                                          !.waiting_for_key_release = None],
                          res |-> OK]
            ELSE [c |-> c, res |-> OK]
    ELSE [c |-> c, res |-> OK]

\* variant: without an input source, a key recorded by handle_key_press ends
\* the wait
cycle_key_wait_legacy(c, inp) ==
    IF ~inp.attached /\ c.waiting_for_key_release # None
    THEN LET s1 == set_v(c.registers, c.key_wait_register, c.waiting_for_key_release)
         IN [c |-> [c EXCEPT !.registers = s1.r,
                             !.waiting_for_key = FALSE,
                             !.waiting_for_key_release = None],
             res |-> OK]
    ELSE IF inp.attached /\ c.waiting_for_key_release = None
            /\ get_first_pressed_key(inp) # None
         THEN [c |-> [c EXCEPT !.waiting_for_key_release = get_first_pressed_key(inp)],
               res |-> OK]
         ELSE [c |-> c, res |-> OK]

\* the key-wait branch of cycle(): poll the input source, execute nothing
\* variant: while a release is pending the pending key follows the lowest
\* key that is down
cycle_key_wait_recapturing(c, inp) ==
    IF inp.attached
    THEN IF c.waiting_for_key_release # None /\ get_first_pressed_key(inp) = None
         THEN LET s1 == set_v(c.registers, c.key_wait_register,
                              c.waiting_for_key_release)
              IN [c |-> [c EXCEPT !.registers = s1.r,
                                  !.waiting_for_key = FALSE,
                                  !.waiting_for_key_release = None],
                  res |-> OK]
         ELSE [c |-> [c EXCEPT !.waiting_for_key_release = get_first_pressed_key(inp)],
               res |-> OK]
    ELSE [c |-> c, res |-> OK]

cycle_key_wait(c, inp) ==
    IF inp.attached
    THEN IF c.waiting_for_key_release # None
         THEN LET waiting_key == c.waiting_for_key_release
              IN IF ChipKey_from_u8(waiting_key) # None
                    /\ ~is_key_pressed(inp, waiting_key)
                 THEN LET s1 == set_v(c.registers, c.key_wait_register, waiting_key)
                      IN IF ~IsOk(s1.res) THEN [c |-> c, res |-> s1.res]
                         ELSE [c |-> [c EXCEPT !.registers = s1.r,
                                               !.waiting_for_key = FALSE,
                                               !.waiting_for_key_release = None],
                               res |-> OK]
                 ELSE [c |-> c, res |-> OK]
         ELSE LET pressed_key == get_first_pressed_key(inp)
              IN IF pressed_key # None
                 THEN [c |-> [c EXCEPT !.waiting_for_key_release = pressed_key],
                       res |-> OK]
                 ELSE [c |-> c, res |-> OK]
    ELSE [c |-> c, res |-> OK]

\* variant: the sink is called at the end of the cycle
cycle_audio_after_dispatch(c, inp, periods, random_byte, oc) ==
    LET c0 == [c EXCEPT !.timers = Timers_update(c.timers, periods)]
        r == IF c0.waiting_for_key
             THEN LET w == cycle_key_wait(c0, inp)
                  IN [c |-> w.c, res |-> w.res, fetched |-> None]
             ELSE LET f == read_word(c0.memory, c0.registers.pc, oc)
                  IN IF ~IsOk(f.res)
                     THEN [c |-> c0, res |-> f.res, fetched |-> None]
                     ELSE LET c1 == [c0 EXCEPT !.registers = increment_pc(c0.registers)]
                              e == execute_instruction(c1, inp, f.val, random_byte, oc)
                          IN IF ~IsOk(e.res)
                             THEN [c |-> e.c, res |-> e.res, fetched |-> f.val]
                             ELSE [c |-> [e.c EXCEPT !.instruction_count = @ + 1],
                                   res |-> OK, fetched |-> f.val]
    IN [r EXCEPT !.c = cycle_audio(r.c)]

\* variant: the generic PC advance follows the dispatch
cycle_pc_after_dispatch(c, inp, periods, random_byte, oc) ==
    LET c0 == cycle_audio([c EXCEPT !.timers = Timers_update(c.timers, periods)])
    IN IF c0.waiting_for_key
       THEN LET w == cycle_key_wait(c0, inp)
            IN [c |-> w.c, res |-> w.res, fetched |-> None]
       ELSE LET f == read_word(c0.memory, c0.registers.pc, oc)
            IN IF ~IsOk(f.res)
               THEN [c |-> c0, res |-> f.res, fetched |-> None]
               ELSE LET e == execute_instruction(c0, inp, f.val, random_byte, oc)
                    IN IF ~IsOk(e.res)
                       THEN [c |-> e.c, res |-> e.res, fetched |-> f.val]
                       ELSE [c |-> [e.c EXCEPT
                                      !.registers = increment_pc(e.c.registers),
                                      !.instruction_count = @ + 1],
                             res |-> OK, fetched |-> f.val]

\* variant: a cycle whose instruction fails is counted too
cycle_counts_failures(c, inp, periods, random_byte, oc) ==
    LET c0 == cycle_audio([c EXCEPT !.timers = Timers_update(c.timers, periods)])
    IN IF c0.waiting_for_key
       THEN LET w == cycle_key_wait(c0, inp)
            IN [c |-> w.c, res |-> w.res, fetched |-> None]
       ELSE LET f == read_word(c0.memory, c0.registers.pc, oc)
            IN IF ~IsOk(f.res)
               THEN [c |-> c0, res |-> f.res, fetched |-> None]
               ELSE LET c1 == [c0 EXCEPT !.registers = increment_pc(c0.registers)]
                        e == execute_instruction(c1, inp, f.val, random_byte, oc)
                    IN [c |-> [e.c EXCEPT !.instruction_count = @ + 1],
                        res |-> e.res, fetched |-> f.val]

\* cycle(): periods is the number of whole timer periods the wall clock has
\* accumulated, random_byte what the generator yields, oc the build flavour.
\* The result also reports the fetched instruction (None when none was).
cycle(c, inp, periods, random_byte, oc) ==
    LET c0 == cycle_audio([c EXCEPT !.timers = Timers_update(c.timers, periods)])
    IN IF c0.waiting_for_key
       THEN LET w == cycle_key_wait(c0, inp)
            IN [c |-> w.c, res |-> w.res, fetched |-> None]
       ELSE LET f == read_word(c0.memory, c0.registers.pc, oc)
            IN IF ~IsOk(f.res)
               THEN [c |-> c0, res |-> f.res, fetched |-> None]
               ELSE LET c1 == [c0 EXCEPT !.registers = increment_pc(c0.registers)]
                        e == execute_instruction(c1, inp, f.val, random_byte, oc)
                    IN IF ~IsOk(e.res)
                       THEN [c |-> e.c, res |-> e.res, fetched |-> f.val]
                       ELSE [c |-> [e.c EXCEPT !.instruction_count = @ + 1],
                             res |-> OK, fetched |-> f.val]

(***************************************************************************)
(* The state variables as the records the operators work on, and back.     *)
(***************************************************************************)
CpuRec ==
    [registers |-> [v |-> v, i |-> i, pc |-> pc, sp |-> sp],
     memory |-> [data |-> mem_data, wraparound_enabled |-> wraparound_enabled],
     stack |-> [data |-> stack_data, sp |-> stack_sp],
     timers |-> [delay_timer |-> delay_timer, sound_timer |-> sound_timer],
     instruction_count |-> instruction_count,
     waiting_for_key |-> waiting_for_key,
     key_wait_register |-> key_wait_register,
     waiting_for_key_release |-> waiting_for_key_release,
     display |-> display,
     audio |-> audio]

SetCpu(c) ==
    /\ v' = c.registers.v
    /\ i' = c.registers.i
    /\ pc' = c.registers.pc
    /\ sp' = c.registers.sp
    /\ mem_data' = c.memory.data
    /\ wraparound_enabled' = c.memory.wraparound_enabled
    /\ stack_data' = c.stack.data
    /\ stack_sp' = c.stack.sp
    /\ delay_timer' = c.timers.delay_timer
    /\ sound_timer' = c.timers.sound_timer
    /\ instruction_count' = c.instruction_count
    /\ waiting_for_key' = c.waiting_for_key
    /\ key_wait_register' = c.key_wait_register
    /\ waiting_for_key_release' = c.waiting_for_key_release
    /\ display' = c.display
    /\ audio' = c.audio
    /\ UNCHANGED audioVars

CpuIs(c) ==
    /\ v = c.registers.v
    /\ i = c.registers.i
    /\ pc = c.registers.pc
    /\ sp = c.registers.sp
    /\ mem_data = c.memory.data
    /\ wraparound_enabled = c.memory.wraparound_enabled
    /\ stack_data = c.stack.data
    /\ stack_sp = c.stack.sp
    /\ delay_timer = c.timers.delay_timer
    /\ sound_timer = c.timers.sound_timer
    /\ instruction_count = c.instruction_count
    /\ waiting_for_key = c.waiting_for_key
    /\ key_wait_register = c.key_wait_register
    /\ waiting_for_key_release = c.waiting_for_key_release
    /\ display = c.display
    /\ audio = c.audio

Inp == [attached |-> input_attached, pressed |-> pressed_keys]

\* what `last` records about an operation: its name, its two arguments (0
\* when it has fewer), what it returned, and for cycle() the word it fetched
\* (None when it fetched nothing or the fetch failed)
Op(name, a, b, res, fetched) ==
    [op |-> name, a |-> a, b |-> b, res |-> res, fetched |-> fetched]

Panicked == last.res.kind = "Panic"

(***************************************************************************)
(* Inputs of the model                                                     *)
(***************************************************************************)
\* create_test_rom (test_utils.rs): the big-endian bytes of a word sequence
create_test_rom(instructions) ==
    [k \in 1..(2 * Len(instructions)) |->
        IF k % 2 = 1 THEN instructions[(k + 1) \div 2] \div 256
                     ELSE instructions[k \div 2] % 256]

\* 16^^XXXX written in decimal is unreadable; H builds a word from nibbles
H(a, b, c, d) == a * 4096 + b * 256 + c * 16 + d

Programs ==
    { \* LD V1,5; ADD V1,0x10; LD I,0x456
      << H(6,1,0,5), H(7,1,1,0), H(10,4,5,6) >>,
      \* nested calls: 200 CALL 206; 202 JP 202; 204 -; 206 CALL 20A; 208 RET; 20A RET
      << H(2,2,0,6), H(1,2,0,2), 0, H(2,2,0,10), H(0,0,14,14), H(0,0,14,14) >>,
      \* unbounded recursion: 200 CALL 200
      << H(2,2,0,0) >>,
      \* return on an empty stack, then a jump
      << H(0,0,14,14), H(1,2,0,6) >>,
      \* LD V0,3; JP V0,0x300
      << H(6,0,0,3), H(11,3,0,0) >>,
      \* skips: LD V1,5; SE V1,5; -; SE V1,6; SNE V1,5; SNE V1,6; -; SE V1,V2; SNE V1,V2
      << H(6,1,0,5), H(3,1,0,5), 0, H(3,1,0,6), H(4,1,0,5), H(4,1,0,6), 0,
         H(5,1,2,0), H(9,1,2,0) >>,
      \* key wait: LD V1,K; LD V2,1; SKP V2; SKNP V2
      << H(15,1,0,10), H(6,2,0,1), H(14,2,9,14), H(14,2,10,1) >>,
      \* BCD and block store across the end of memory:
      \* LD I,0xFFE; LD V1,123; LD B,V1; LD [I],V2
      << H(10,15,15,14), H(6,1,7,11), H(15,1,3,3), H(15,2,5,5) >>,
      \* block load across the end of memory: LD V2,7; LD I,0xFFF; LD V2,[I]
      << H(6,2,0,7), H(10,15,15,15), H(15,2,6,5) >>,
      \* jump to the last byte of memory
      << H(1,15,15,15) >>,
      \* jump past the end of memory: LD V0,1; JP V0,0xFFF
      << H(6,0,0,1), H(11,15,15,15) >>,
      \* timers: LD V1,3; LD DT,V1; LD ST,V1; LD V2,DT
      << H(6,1,0,3), H(15,1,1,5), H(15,1,1,8), H(15,2,0,7) >>,
      \* unknown words between good ones: LD V1,1; 5121; 8128; LD V2,2; FFFF
      << H(6,1,0,1), H(5,1,2,1), H(8,1,2,8), H(6,2,0,2), H(15,15,15,15) >>,
      \* arithmetic: LD V1,0xFF; LD V2,1; ADD V1,V2; SUB V1,V2; SUBN V1,V2; SHR V1; SHL V2
      << H(6,1,15,15), H(6,2,0,1), H(8,1,2,4), H(8,1,2,5), H(8,1,2,7),
         H(8,1,0,6), H(8,2,0,14) >>,
      \* RND V1,0x0F; DRW V0,V0,1; LD V3,0xFF; ADD I,V3; LD F,V1; CLS; OR/AND/XOR/LD
      << H(12,1,0,15), H(13,0,0,1), H(6,3,15,15), H(15,3,1,14), H(15,1,2,9),
         H(0,0,14,0), H(8,1,3,1), H(8,1,3,2), H(8,1,3,3), H(8,1,3,0) >>,
      \* a store over the font table: LD V0,0xAB; LD I,0x050; LD [I],V0
      << H(6,0,10,11), H(10,0,5,0), H(15,0,5,5) >> }

\* the ROM images the driver may try to load: the programs and an empty file
Roms == {create_test_rom(p) : p \in Programs} \cup { << >> }

RandomBytes == {0, 165, 255}

Keys == 0..MaxKey

\* key codes handed to handle_key_press: the keys, and one outside 0..15
KeyCodes == Keys \cup {16}

(***************************************************************************)
(* Operations on the CPU                                                   *)
(***************************************************************************)
Init ==
    /\ \E w \in BOOLEAN : CpuIs(Cpu_new_with_config(w))
    /\ input_attached \in BOOLEAN
    /\ pressed_keys = {}
    /\ last = Op("new", 0, 0, OK, None)
    /\ AudioSystem_unused
    /\ ncycles = 0

\* The environment's choices for one cycle.  Elapsed periods only matter to
\* a timer that is not 0, and the generator is only consulted by Cxnn, so
\* the other choices are not enumerated where they cannot be observed.
ElapsedPeriods ==
    IF delay_timer = 0 /\ sound_timer = 0 THEN {0} ELSE 0..MaxTicks

GeneratedBytes ==
    IF Cell(mem_data, pc % MEMORY_SIZE) \div 16 = 12 THEN RandomBytes ELSE {0}

Cycle ==
    /\ ~Panicked
    /\ ncycles < MaxCycles
    /\ \E periods \in ElapsedPeriods, random_byte \in GeneratedBytes, oc \in BOOLEAN :
         LET r == cycle(CpuRec, Inp, periods, random_byte, oc)
         IN /\ SetCpu(r.c)
            /\ last' = Op("cycle", 0, 0, r.res, r.fetched)
    /\ ncycles' = ncycles + 1
    /\ UNCHANGED <<input_attached, pressed_keys>>

\* The driver loads a program before it starts cycling (frontend/cli.rs);
\* a load that fails may be attempted at any time.
LoadRom ==
    /\ ~Panicked
    /\ \E rom_data \in Roms :
         LET r == Cpu_load_rom(CpuRec, rom_data)
         IN /\ ncycles = 0 \/ ~IsOk(r.res)
            /\ SetCpu(r.c)
            /\ last' = Op("load_rom", Len(rom_data), 0, r.res, None)
    /\ UNCHANGED <<input_attached, pressed_keys, ncycles>>

Reset ==
    /\ ~Panicked
    /\ SetCpu(Cpu_reset(CpuRec))
    /\ last' = Op("reset", 0, 0, OK, None)
    /\ ncycles' = 0
    /\ UNCHANGED <<input_attached, pressed_keys>>

HandleKeyPress ==
    /\ ~Panicked
    /\ \E key \in KeyCodes :
         SetCpu(handle_key_press(CpuRec, key))
    /\ UNCHANGED <<input_attached, pressed_keys, last, ncycles>>

\* the environment presses or releases a key of the attached input source
PressKey ==
    /\ input_attached
    /\ \E key \in Keys \ pressed_keys :
         pressed_keys' = pressed_keys \cup {key}
    /\ UNCHANGED <<cpuVars, audioVars, input_attached, last, ncycles>>

ReleaseKey ==
    /\ input_attached
    /\ \E key \in pressed_keys :
         pressed_keys' = pressed_keys \ {key}
    /\ UNCHANGED <<cpuVars, audioVars, input_attached, last, ncycles>>

Next == Cycle \/ LoadRom \/ Reset \/ HandleKeyPress \/ PressKey \/ ReleaseKey

Spec == Init /\ [][Next]_vars

TypeOK ==
    /\ v \in [0..15 -> 0..255]
    /\ i \in 0..65535
    /\ pc \in 0..65535
    /\ stack_sp \in 0..16
    /\ delay_timer \in 0..255
    /\ sound_timer \in 0..255

(***************************************************************************)
(* Single instructions: a CPU that has just loaded a one-word program      *)
(* runs one cycle.  Every 16-bit word is tried.                            *)
(***************************************************************************)
InitExec ==
    /\ \E w \in 0..(U16 - 1) :
         CpuIs(Cpu_load_rom(Cpu_new, create_test_rom(<< w >>)).c)
    /\ input_attached = FALSE
    /\ pressed_keys = {}
    /\ last = Op("load_rom", 2, 0, OK, None)
    /\ AudioSystem_unused
    /\ ncycles = 0

CycleOnce == ncycles = 0 /\ Cycle

SpecExec == InitExec /\ [][CycleOnce]_vars

(***************************************************************************)
(* The register file on its own: the fused arithmetic operations applied   *)
(* once to a register file whose V0, V1 and VF hold sample bytes.          *)
(***************************************************************************)
ByteSamples == {0, 1, 16, 127, 128, 255}
RegIndices == {0, 1, 15}

InitRegs ==
    /\ \E a \in ByteSamples, b \in ByteSamples, f \in ByteSamples :
         CpuIs([Cpu_new EXCEPT !.registers.v[0] = a,
                               !.registers.v[1] = b,
                               !.registers.v[15] = f])
    /\ input_attached = FALSE
    /\ pressed_keys = {}
    /\ last = Op("new", 0, 0, OK, None)
    /\ AudioSystem_unused
    /\ ncycles = 0

RegistersRec == [v |-> v, i |-> i, pc |-> pc, sp |-> sp]

SetRegisters(r) ==
    /\ v' = r.v
    /\ i' = r.i
    /\ pc' = r.pc
    /\ sp' = r.sp

AddWithCarry ==
    /\ last.op = "new"
    /\ \E x \in RegIndices, y \in RegIndices :
         LET rr == add_with_carry(RegistersRec, x, y)
         IN /\ SetRegisters(rr.r)
            /\ last' = Op("add_with_carry", x, y, rr.res, None)
    /\ UNCHANGED <<mem_data, wraparound_enabled, stack_data, stack_sp,
                   delay_timer, sound_timer, instruction_count,
                   waiting_for_key, key_wait_register,
                   waiting_for_key_release, display, input_attached,
                   pressed_keys, ncycles,
                   audio, audioVars>>

SubWithBorrow ==
    /\ last.op = "new"
    /\ \E x \in RegIndices, y \in RegIndices :
         LET rr == sub_with_borrow(RegistersRec, x, y)
         IN /\ SetRegisters(rr.r)
            /\ last' = Op("sub_with_borrow", x, y, rr.res, None)
    /\ UNCHANGED <<mem_data, wraparound_enabled, stack_data, stack_sp,
                   delay_timer, sound_timer, instruction_count,
                   waiting_for_key, key_wait_register,
                   waiting_for_key_release, display, input_attached,
                   pressed_keys, ncycles,
                   audio, audioVars>>

SubReverseWithBorrow ==
    /\ last.op = "new"
    /\ \E x \in RegIndices, y \in RegIndices :
         LET rr == sub_reverse_with_borrow(RegistersRec, x, y)
         IN /\ SetRegisters(rr.r)
            /\ last' = Op("sub_reverse_with_borrow", x, y, rr.res, None)
    /\ UNCHANGED <<mem_data, wraparound_enabled, stack_data, stack_sp,
                   delay_timer, sound_timer, instruction_count,
                   waiting_for_key, key_wait_register,
                   waiting_for_key_release, display, input_attached,
                   pressed_keys, ncycles,
                   audio, audioVars>>

ShiftRight ==
    /\ last.op = "new"
    /\ \E x \in RegIndices :
         LET rr == shift_right(RegistersRec, x)
         IN /\ SetRegisters(rr.r)
            /\ last' = Op("shift_right", x, 0, rr.res, None)
    /\ UNCHANGED <<mem_data, wraparound_enabled, stack_data, stack_sp,
                   delay_timer, sound_timer, instruction_count,
                   waiting_for_key, key_wait_register,
                   waiting_for_key_release, display, input_attached,
                   pressed_keys, ncycles,
                   audio, audioVars>>

ShiftLeft ==
    /\ last.op = "new"
    /\ \E x \in RegIndices :
         LET rr == shift_left(RegistersRec, x)
         IN /\ SetRegisters(rr.r)
            /\ last' = Op("shift_left", x, 0, rr.res, None)
    /\ UNCHANGED <<mem_data, wraparound_enabled, stack_data, stack_sp,
                   delay_timer, sound_timer, instruction_count,
                   waiting_for_key, key_wait_register,
                   waiting_for_key_release, display, input_attached,
                   pressed_keys, ncycles,
                   audio, audioVars>>

\* the 8xyN words that dispatch to the fused operations
ArithmeticNibbles == {4, 5, 6, 7, 14}

\* execute_instruction() on a word 8xyN, as cycle() calls it after the fetch
ExecuteArithmetic ==
    /\ last.op = "new"
    /\ \E x \in RegIndices, y \in RegIndices, n \in ArithmeticNibbles :
         LET instruction == 8 * 4096 + x * 256 + y * 16 + n
             e == execute_instruction(CpuRec, Inp, instruction, 0, FALSE)
         IN /\ SetCpu(e.c)
            /\ last' = Op("execute_instruction", x, y, e.res, instruction)
    /\ UNCHANGED <<input_attached, pressed_keys, ncycles>>

NextRegs ==
    \/ AddWithCarry \/ SubWithBorrow \/ SubReverseWithBorrow
    \/ ShiftRight \/ ShiftLeft \/ ExecuteArithmetic

SpecRegs == InitRegs /\ [][NextRegs]_vars

(***************************************************************************)
(* The call stack on its own: push, pop, peek and reset in any order.      *)
(***************************************************************************)
MaxVaried == 3       \* pushes below this depth choose between two addresses

StackRec == [data |-> stack_data, sp |-> stack_sp]

PushAddrs == IF stack_sp < MaxVaried THEN {514, 768} ELSE {514}

InitStack ==
    /\ CpuIs(Cpu_new)
    /\ input_attached = FALSE
    /\ pressed_keys = {}
    /\ last = Op("new", 0, 0, OK, None)
    /\ AudioSystem_unused
    /\ ncycles = 0

SetStack(s) ==
    /\ stack_data' = s.data
    /\ stack_sp' = s.sp

\* A value returned by pop or peek is recorded as the operation's second
\* argument.
Push ==
    /\ \E value \in PushAddrs :
         LET r == push(StackRec, value)
         IN /\ SetStack(r.s)
            /\ last' = Op("push", value, 0, r.res, None)
    /\ UNCHANGED <<v, i, pc, sp, mem_data, wraparound_enabled, delay_timer,
                   sound_timer, instruction_count, waiting_for_key,
                   key_wait_register, waiting_for_key_release, display,
                   input_attached, pressed_keys, ncycles,
                   audio, audioVars>>

Pop ==
    /\ LET r == pop(StackRec)
       IN /\ SetStack(r.s)
          /\ last' = Op("pop", 0, r.val, r.res, None)
    /\ UNCHANGED <<v, i, pc, sp, mem_data, wraparound_enabled, delay_timer,
                   sound_timer, instruction_count, waiting_for_key,
                   key_wait_register, waiting_for_key_release, display,
                   input_attached, pressed_keys, ncycles,
                   audio, audioVars>>

Peek ==
    /\ LET r == peek(StackRec)
       IN /\ SetStack(r.s)
          /\ last' = Op("peek", 0, r.val, r.res, None)
    /\ UNCHANGED <<v, i, pc, sp, mem_data, wraparound_enabled, delay_timer,
                   sound_timer, instruction_count, waiting_for_key,
                   key_wait_register, waiting_for_key_release, display,
                   input_attached, pressed_keys, ncycles,
                   audio, audioVars>>

StackReset ==
    /\ SetStack(Stack_new)
    /\ last' = Op("reset", 0, 0, OK, None)
    /\ UNCHANGED <<v, i, pc, sp, mem_data, wraparound_enabled, delay_timer,
                   sound_timer, instruction_count, waiting_for_key,
                   key_wait_register, waiting_for_key_release, display,
                   input_attached, pressed_keys, ncycles,
                   audio, audioVars>>

NextStack == Push \/ Pop \/ Peek \/ StackReset

SpecStack == InitStack /\ [][NextStack]_vars

(***************************************************************************)
(* The display on its own: one draw_sprite or clear applied to a display   *)
(* that an earlier draw has left.                                          *)
(***************************************************************************)
XSamples == {0, 1, 62, 63, 249, 255}
YSamples == {0, 31, 250, 255}
Sprites == {<< >>, <<128>>, <<192>>, <<64>>, <<255, 129>>}

\* the displays a first draw leaves
DrawnDisplays ==
    {draw_sprite(SoftwareDisplay_new, x0, y0, s0, FALSE).d :
        x0 \in {0, 63}, y0 \in {0, 31}, s0 \in {<< >>, <<192>>, <<255, 129>>}}

InitDisplay ==
    /\ \E d \in DrawnDisplays : CpuIs([Cpu_new EXCEPT !.display = d])
    /\ input_attached = FALSE
    /\ pressed_keys = {}
    /\ last = Op("new", 0, 0, OK, None)
    /\ AudioSystem_unused
    /\ ncycles = 0

\* what `last` records about a draw: the position, the rows, the Result and
\* the collision it carried
DrawOp(x, y, sprite, res, val) ==
    [op |-> "draw_sprite", a |-> x, b |-> y, res |-> res, fetched |-> None,
     sprite |-> sprite, val |-> val]

DrawSprite ==
    /\ last.op = "new"
    /\ \E x \in XSamples, y \in YSamples, sprite \in Sprites, oc \in BOOLEAN :
         LET r == draw_sprite(display, x, y, sprite, oc)
         IN /\ display' = r.d
            /\ last' = DrawOp(x, y, sprite, r.res, r.val)
    /\ UNCHANGED <<v, i, pc, sp, mem_data, wraparound_enabled, stack_data,
                   stack_sp, delay_timer, sound_timer, instruction_count,
                   waiting_for_key, key_wait_register,
                   waiting_for_key_release, input_attached, pressed_keys,
                   ncycles,
                   audio, audioVars>>

Clear ==
    /\ last.op = "new"
    /\ display' = Display_clear(display)
    /\ last' = Op("clear", 0, 0, OK, None)
    /\ UNCHANGED <<v, i, pc, sp, mem_data, wraparound_enabled, stack_data,
                   stack_sp, delay_timer, sound_timer, instruction_count,
                   waiting_for_key, key_wait_register,
                   waiting_for_key_release, input_attached, pressed_keys,
                   ncycles,
                   audio, audioVars>>

NextDisplay == DrawSprite \/ Clear

SpecDisplay == InitDisplay /\ [][NextDisplay]_vars

(***************************************************************************)
(* Dxyn: a program that sets V0, V1, VF and I and then draws twice, run    *)
(* with and without a display attached.                                    *)
(***************************************************************************)
DrawProgramLength == 6     \* instructions of a draw program

DrawPrograms ==
    {<< H(6,0,0,0) + a, H(6,1,0,0) + b, H(6,15,0,0) + f, H(10,0,0,0) + addr,
        H(13,x,y,n), H(13,x,y,n) >> :
        a \in {0, 62, 250}, b \in {0, 31}, f \in {0, 7}, addr \in {80, 4094},
        x \in {0, 15}, y \in {1, 15}, n \in {0, 1, 5}}

\* set_display() is called, or not, before the program is loaded
InitDraw ==
    /\ \E p \in DrawPrograms, d \in {NoDisplay, SoftwareDisplay_new} :
         CpuIs([Cpu_load_rom(Cpu_new, create_test_rom(p)).c EXCEPT !.display = d])
    /\ input_attached = FALSE
    /\ pressed_keys = {}
    /\ last = Op("load_rom", 2 * DrawProgramLength, 0, OK, None)
    /\ AudioSystem_unused
    /\ ncycles = 0

CycleDraw == ncycles < DrawProgramLength /\ Cycle

SpecDraw == InitDraw /\ [][CycleDraw]_vars

(***************************************************************************)
(* The memory on its own: byte and word accesses, loads, copies, clears    *)
(* and mode changes in any order, while fewer than MaxModified cells       *)
(* differ from a fresh memory.                                             *)
(***************************************************************************)
MaxModified == 2

AddrSamples == {80, 4095, 4096, 4176, 65535}
WordAddrs == {512, 4094, 4095, 65535}
ByteValue == 171         \* 0xAB
WordValue == 4660        \* 0x1234
LoadStarts == {0, 512, 4094, 4095, 4096, 4097}
LoadData == {<< >>, <<1>>, <<1, 2>>, <<1, 2, 3>>}
CopyArgs == {<<80, 512, 5>>, <<512, 80, 2>>, <<80, 81, 3>>, <<4094, 0, 3>>,
             <<0, 4095, 2>>}

\* one byte more than fits between PROGRAM_START and the end of memory
OversizeRom == [k \in 1..(MEMORY_SIZE - PROGRAM_START + 1) |-> 1]

MemoryRec == [data |-> mem_data, wraparound_enabled |-> wraparound_enabled]

\* the cells that differ from those of a fresh memory
Modified ==
    {a \in DOMAIN mem_data \cup DOMAIN Memory_new.data :
        Cell(mem_data, a) # Cell(Memory_new.data, a)}

MayModify == Cardinality(Modified) < MaxModified

\* What the last memory operation was: its name, its integer arguments
\* (a, b, n), its byte-sequence argument and its result.
MemOp(name, a, b, n, data, res) ==
    [op |-> name, a |-> a, b |-> b, n |-> n, data |-> data, res |-> res]

InitMemory ==
    /\ \E w \in BOOLEAN : CpuIs(Cpu_new_with_config(w))
    /\ input_attached = FALSE
    /\ pressed_keys = {}
    /\ last = MemOp("new", 0, 0, 0, << >>, OK)
    /\ AudioSystem_unused
    /\ ncycles = 0

SetMemory(m) ==
    /\ mem_data' = m.data
    /\ wraparound_enabled' = m.wraparound_enabled

\* A value returned by read_byte or read_word is recorded as the
\* operation's second argument.
ReadByte ==
    /\ ~Panicked
    /\ \E address \in AddrSamples :
         LET r == read_byte(MemoryRec, address)
         IN last' = MemOp("read_byte", address, r.val, 0, << >>, r.res)
    /\ UNCHANGED <<cpuVars, audioVars, input_attached, pressed_keys, ncycles>>

WriteByte ==
    /\ ~Panicked
    /\ MayModify
    /\ \E address \in AddrSamples :
         LET r == write_byte(MemoryRec, address, ByteValue)
         IN /\ SetMemory(r.m)
            /\ last' = MemOp("write_byte", address, ByteValue, 0, << >>, r.res)
    /\ UNCHANGED <<v, i, pc, sp, stack_data, stack_sp, delay_timer,
                   sound_timer, instruction_count, waiting_for_key,
                   key_wait_register, waiting_for_key_release, display,
                   input_attached, pressed_keys, ncycles,
                   audio, audioVars>>

ReadWord ==
    /\ ~Panicked
    /\ \E address \in WordAddrs, oc \in BOOLEAN :
         LET r == read_word(MemoryRec, address, oc)
         IN last' = MemOp("read_word", address, r.val, 0, << >>, r.res)
    /\ UNCHANGED <<cpuVars, audioVars, input_attached, pressed_keys, ncycles>>

WriteWord ==
    /\ ~Panicked
    /\ MayModify
    /\ \E address \in WordAddrs, oc \in BOOLEAN :
         LET r == write_word(MemoryRec, address, WordValue, oc)
         IN /\ SetMemory(r.m)
            /\ last' = MemOp("write_word", address, WordValue, 0, << >>, r.res)
    /\ UNCHANGED <<v, i, pc, sp, stack_data, stack_sp, delay_timer,
                   sound_timer, instruction_count, waiting_for_key,
                   key_wait_register, waiting_for_key_release, display,
                   input_attached, pressed_keys, ncycles,
                   audio, audioVars>>

\* Cpu::load_rom_at, which is Memory::load_rom_at followed on success by
\* set_pc(start_address)
LoadRomAt ==
    /\ ~Panicked
    /\ MayModify
    /\ \E rom_data \in LoadData, start_address \in LoadStarts :
         LET r == Cpu_load_rom_at(CpuRec, rom_data, start_address)
         IN /\ SetCpu(r.c)
            /\ last' = MemOp("load_rom_at", start_address, 0, 0, rom_data, r.res)
    /\ UNCHANGED <<input_attached, pressed_keys, ncycles>>

\* Cpu::load_rom, which is Memory::load_rom (a load at PROGRAM_START)
\* followed on success by set_pc(PROGRAM_START)
LoadRomDefault ==
    /\ ~Panicked
    /\ MayModify
    /\ \E rom_data \in LoadData \cup {OversizeRom} :
         LET r == Cpu_load_rom(CpuRec, rom_data)
         IN /\ SetCpu(r.c)
            /\ last' = MemOp("load_rom", PROGRAM_START, 0, 0, rom_data, r.res)
    /\ UNCHANGED <<input_attached, pressed_keys, ncycles>>

Copy ==
    /\ ~Panicked
    /\ MayModify
    /\ \E args \in CopyArgs :
         LET r == copy(MemoryRec, args[1], args[2], args[3])
         IN /\ SetMemory(r.m)
            /\ last' = MemOp("copy", args[1], args[2], args[3], << >>, r.res)
    /\ UNCHANGED <<v, i, pc, sp, stack_data, stack_sp, delay_timer,
                   sound_timer, instruction_count, waiting_for_key,
                   key_wait_register, waiting_for_key_release, display,
                   input_attached, pressed_keys, ncycles,
                   audio, audioVars>>

ClearMemory ==
    /\ ~Panicked
    /\ SetMemory(Memory_clear(MemoryRec))
    /\ last' = MemOp("clear", 0, 0, 0, << >>, OK)
    /\ UNCHANGED <<v, i, pc, sp, stack_data, stack_sp, delay_timer,
                   sound_timer, instruction_count, waiting_for_key,
                   key_wait_register, waiting_for_key_release, display,
                   input_attached, pressed_keys, ncycles,
                   audio, audioVars>>

SetWraparound ==
    /\ ~Panicked
    /\ \E enabled \in BOOLEAN :
         /\ SetMemory(set_wraparound(MemoryRec, enabled))
         /\ last' = MemOp("set_wraparound", IF enabled THEN 1 ELSE 0, 0, 0,
                         << >>, OK)
    /\ UNCHANGED <<v, i, pc, sp, stack_data, stack_sp, delay_timer,
                   sound_timer, instruction_count, waiting_for_key,
                   key_wait_register, waiting_for_key_release, display,
                   input_attached, pressed_keys, ncycles,
                   audio, audioVars>>

NextMemory ==
    \/ ReadByte \/ WriteByte \/ ReadWord \/ WriteWord
    \/ LoadRomAt \/ LoadRomDefault \/ Copy \/ ClearMemory \/ SetWraparound

SpecMemory == InitMemory /\ [][NextMemory]_vars

(***************************************************************************)
(* The timers on their own: each is set at most MaxSets times and ticked   *)
(* in any order, through update_by_ticks(n) or through update() after the  *)
(* wall clock has accumulated n whole periods.                             *)
(***************************************************************************)
MaxSets == 1

TimerValues == {0, 1, 2, 10}
TickCounts == {0, 1, 2, 10, 11}

TimersRec == [delay_timer |-> delay_timer, sound_timer |-> sound_timer]

InitTimers ==
    /\ CpuIs(Cpu_new)
    /\ input_attached = FALSE
    /\ pressed_keys = {}
    /\ last = Op("new", 0, 0, OK, None)
    /\ AudioSystem_unused
    /\ ncycles = 0

SetTimers(t) ==
    /\ delay_timer' = t.delay_timer
    /\ sound_timer' = t.sound_timer
    /\ UNCHANGED <<v, i, pc, sp, mem_data, wraparound_enabled, stack_data,
                   stack_sp, instruction_count, waiting_for_key,
                   key_wait_register, waiting_for_key_release, display,
                   audio, audioVars, input_attached, pressed_keys>>

\* ncycles counts the set_delay_timer and set_sound_timer calls
SetDelayTimer ==
    /\ ncycles < 2 * MaxSets
    /\ \E value \in TimerValues :
         /\ SetTimers(set_delay_timer(TimersRec, value))
         /\ last' = Op("set_delay_timer", value, 0, OK, None)
    /\ ncycles' = ncycles + 1

SetSoundTimer ==
    /\ ncycles < 2 * MaxSets
    /\ \E value \in TimerValues :
         /\ SetTimers(set_sound_timer(TimersRec, value))
         /\ last' = Op("set_sound_timer", value, 0, OK, None)
    /\ ncycles' = ncycles + 1

UpdateByTicks ==
    /\ \E ticks \in TickCounts :
         /\ SetTimers(update_by_ticks(TimersRec, ticks))
         /\ last' = Op("update_by_ticks", ticks, 0, OK, None)
    /\ UNCHANGED ncycles

Update ==
    /\ \E periods \in TickCounts :
         /\ SetTimers(Timers_update(TimersRec, periods))
         /\ last' = Op("update", periods, 0, OK, None)
    /\ UNCHANGED ncycles

NextTimers == SetDelayTimer \/ SetSoundTimer \/ UpdateByTicks \/ Update

SpecTimers == InitTimers /\ [][NextTimers]_vars

(***************************************************************************)
(* The timers and the audio sink under the cycle: programs that set both   *)
(* timers, wait for a key, set the delay timer again and run into an       *)
(* unknown word, with no sink, a sink that works or a sink whose calls     *)
(* fail, and with or without an input source.                              *)
(***************************************************************************)
\* LD V1,a; LD ST,V1; LD DT,V1; LD V2,K; LD V3,1; LD DT,V3; FFFF
AudioPrograms ==
    {<< H(6,1,0,0) + a, H(15,1,1,8), H(15,1,1,5), H(15,2,0,10),
        H(6,3,0,1), H(15,3,1,5), H(15,15,15,15) >> : a \in {0, 2, 255}}

\* a sink whose play_beep and stop_beep return Err
FailingAudio == [SoftwareAudio_new EXCEPT !.failing = TRUE]

\* set_audio() is called, or not, before the program is loaded
InitAudio ==
    /\ \E p \in AudioPrograms, a \in {NoAudio, SoftwareAudio_new, FailingAudio} :
         CpuIs([Cpu_load_rom(Cpu_new, create_test_rom(p)).c EXCEPT !.audio = a])
    /\ input_attached \in BOOLEAN
    /\ pressed_keys = {}
    /\ last = Op("load_rom", 14, 0, OK, None)
    /\ AudioSystem_unused
    /\ ncycles = 0

NextAudio == Cycle \/ PressKey \/ ReleaseKey

SpecAudio == InitAudio /\ [][NextAudio]_vars

(***************************************************************************)
(* One cycle from the middle of a run.  In wraparound mode the PC of a     *)
(* program that fills memory runs through every even 16-bit value, so a    *)
(* run can stand at any PC with any word there and any register contents.  *)
(* PlaceWord builds such a state; each specification below draws the       *)
(* words, PCs and registers its instructions depend on and runs one cycle. *)
(***************************************************************************)
PlaceWord(c, p, w) ==
    LET m1 == write_byte(c.memory, p, w \div 256).m
        m2 == write_byte(m1, (p + 1) % U16, w % 256).m
    IN [c EXCEPT !.memory = m2, !.registers = set_pc(c.registers, p)]

\* V1 = a, V2 = b, the other registers 0
RegsWith(a, b) ==
    [k \in 0..(NUM_REGISTERS - 1) |-> IF k = 1 THEN a ELSE IF k = 2 THEN b ELSE 0]

\* the last instruction slots before memory wraps and before the PC wraps
StepPcs == {512, 4094, 65532, 65534}

\* SE V1,0; SE V1,5; SE VF,0; SNE V1,0; SNE V1,5; SNE VF,0;
\* SE V1,V2; SE V1,V1; SNE V1,V2; SNE V1,V1
SkipWords ==
    {H(3,1,0,0), H(3,1,0,5), H(3,15,0,0), H(4,1,0,0), H(4,1,0,5), H(4,15,0,0),
     H(5,1,2,0), H(5,1,1,0), H(9,1,2,0), H(9,1,1,0)}

InitSkip ==
    /\ \E w \in SkipWords, p \in StepPcs, a \in {0, 5, 255}, b \in {0, 5} :
         CpuIs(PlaceWord([Cpu_new_with_config(TRUE) EXCEPT
                            !.registers.v = RegsWith(a, b),
                            !.registers.i = 768,
                            !.stack = push(Stack_new, 518).s,
                            !.timers = set_delay_timer(Timers_new, 3)],
                         p, w))
    /\ input_attached = FALSE
    /\ pressed_keys = {}
    /\ last = Op("new", 0, 0, OK, None)
    /\ AudioSystem_unused
    /\ ncycles = 0

SpecSkip == InitSkip /\ [][CycleOnce]_vars

\* SKP V1; SKNP V1
KeySkipWords == {H(14,1,9,14), H(14,1,10,1)}

\* values of V1: keys 0, 1 and F, and two bytes that name no key
KeyValues == {0, 1, 15, 16, 255}

PressedSets == {{}, {1}, {0, 15}}

InitKeys ==
    /\ \E w \in KeySkipWords, p \in StepPcs, a \in KeyValues :
         CpuIs(PlaceWord([Cpu_new_with_config(TRUE) EXCEPT
                            !.registers.v = RegsWith(a, 0)],
                         p, w))
    /\ input_attached \in BOOLEAN
    /\ pressed_keys \in (IF input_attached THEN PressedSets ELSE {{}})
    /\ last = Op("new", 0, 0, OK, None)
    /\ AudioSystem_unused
    /\ ncycles = 0

SpecKeys == InitKeys /\ [][CycleOnce]_vars

\* ADD I,V1; ADD I,VF
AddIWords == {H(15,1,1,14), H(15,15,1,14)}

\* values of I: inside the 12-bit space, at its top, and past it (where
\* earlier Fx1E instructions can have taken it), up to the top of u16
IndexValues == {0, 3841, 4000, 4095, 4096, 65280, 65535}

InitAddI ==
    /\ \E w \in AddIWords, iv \in IndexValues, a \in {0, 1, 255}, f \in {0, 1} :
         CpuIs(PlaceWord([Cpu_new_with_config(TRUE) EXCEPT
                            !.registers.v = [RegsWith(a, 0) EXCEPT ![15] = f],
                            !.registers.i = iv],
                         PROGRAM_START, w))
    /\ input_attached = FALSE
    /\ pressed_keys = {}
    /\ last = Op("new", 0, 0, OK, None)
    /\ AudioSystem_unused
    /\ ncycles = 0

SpecAddI == InitAddI /\ [][CycleOnce]_vars

(***************************************************************************)
(* Register block transfers: a program that stores V0..Vx at I, overwrites *)
(* V0 and loads V0..Vx back, or loads first and stores afterwards, started *)
(* with I inside memory, at its end, and at the end of the 16-bit range.    *)
(***************************************************************************)
StoreProgramLength == 3     \* instructions of a block-transfer program

\* LD [I],Vx; LD V0,0xEE; LD Vx,[I]  and  LD Vx,[I]; LD V0,0xEE; LD [I],Vx
StorePrograms ==
    {<< H(15,x,5,5), H(6,0,14,14), H(15,x,6,5) >> : x \in {0, 2, 15}}
    \cup {<< H(15,x,6,5), H(6,0,14,14), H(15,x,5,5) >> : x \in {0, 2, 15}}

\* values of I: the font, free memory, the last two cells, the last u16
StoreBases == {80, 768, 4094, 65535}

InitStore ==
    /\ \E p \in StorePrograms, iv \in StoreBases, wrap \in BOOLEAN, d \in {1, 100} :
         CpuIs([Cpu_load_rom(Cpu_new_with_config(wrap), create_test_rom(p)).c EXCEPT
                  !.registers.v = [k \in 0..(NUM_REGISTERS - 1) |-> k + d],
                  !.registers.i = iv])
    /\ input_attached = FALSE
    /\ pressed_keys = {}
    /\ last = Op("load_rom", 2 * StoreProgramLength, 0, OK, None)
    /\ AudioSystem_unused
    /\ ncycles = 0

CycleStore == ncycles < StoreProgramLength /\ Cycle

SpecStore == InitStore /\ [][CycleStore]_vars

(***************************************************************************)
(* The buzzer between two threads.  The engine thread calls the buzzer's   *)
(* methods; the stream's data callback runs on the audio thread whenever   *)
(* the device wants a buffer.  Both go through the mutex of the shared     *)
(* state, which a holder poisons by panicking (get_state() hands the       *)
(* Arc<Mutex<BuzzerState>> to any caller).  A step of a thread is the code *)
(* up to its next lock operation; the callback's loop is one step a frame. *)
(***************************************************************************)
MaxCalls == 3       \* method calls and callback invocations explored
BufferLen == 2      \* samples in the buffer the device hands to the callback

StreamFormats == {"F32", "I16", "U16"}

\* the calls the engine thread makes, with their arguments
EngineCalls ==
    {<< "start_tone", 0 >>, << "stop_tone", 0 >>, << "next_sample", 0 >>,
     << "set_volume", 0 >>, << "set_volume", 2 * VolumeUnit >>,
     << "set_frequency", -1 >>, << "set_frequency", 2 >>}

\* what the device's buffer holds when the callback is entered
StaleData == [n \in 1..BufferLen |-> n]

InitBuzzer ==
    /\ CpuIs(Cpu_new)
    /\ input_attached = FALSE
    /\ pressed_keys = {}
    /\ buzzer = AudioBuzzer_new(BuzzerConfig_default)
    /\ engine_thread = EngineIdle
    /\ \E format \in StreamFormats, channels \in {1, 2} :
         audio_thread = [pc |-> "idle", format |-> format, channels |-> channels,
                         data |-> StaleData, frame |-> 0, poisoned |-> FALSE]
    /\ last = Op("new", 0, 0, OK, None)
    /\ ncycles = 0

\* the part of a method before `self.state.lock()`: the buzzer it leaves,
\* what it returns, and whether it goes on to the lock
Call(b, op, arg) ==
    CASE op = "start_tone" -> [b |-> start_tone(b), res |-> OK, locks |-> TRUE]
      [] op = "stop_tone" -> [b |-> stop_tone(b), res |-> OK, locks |-> TRUE]
      [] op = "set_volume" -> [b |-> set_volume(b, arg), res |-> OK, locks |-> TRUE]
      [] op = "set_frequency" ->
           LET r == set_frequency(b, arg)
           IN [b |-> r.b, res |-> r.res, locks |-> IsOk(r.res)]
      [] op = "next_sample" ->
           IF b.playing THEN [b |-> advance_phase(b), res |-> OK, locks |-> TRUE]
           ELSE [b |-> b, res |-> OK, locks |-> FALSE]

\* last.a is the shared phase before the step, last.b the thread that stepped
\* (0 engine, 1 audio, 2 another holder of the state)
EngineCall ==
    /\ engine_thread.pc = "idle"
    /\ ncycles < MaxCalls
    /\ \E method \in EngineCalls :
         LET r == Call(buzzer, method[1], method[2])
         IN /\ buzzer' = r.b
            /\ engine_thread' = IF r.locks THEN [pc |-> "lock", op |-> method[1]]
                                ELSE EngineIdle
            /\ last' = Op(method[1], buzzer.state.phase, 0, r.res, None)
    /\ ncycles' = ncycles + 1
    /\ UNCHANGED <<cpuVars, audio_thread, input_attached, pressed_keys>>

\* `if let Ok(mut state) = self.state.lock()`: the thread waits for the
\* mutex; the Err of a poisoned mutex is dropped at the end of the statement
EngineLock ==
    /\ engine_thread.pc = "lock"
    /\ buzzer.lock.holder = "none"
    /\ IF buzzer.lock.poisoned
       THEN /\ engine_thread' = EngineIdle
            /\ UNCHANGED buzzer
       ELSE /\ engine_thread' = [engine_thread EXCEPT !.pc = "write"]
            /\ buzzer' = [buzzer EXCEPT !.lock.holder = "engine"]
    /\ last' = Op(engine_thread.op, buzzer.state.phase, 0, OK, None)
    /\ UNCHANGED <<cpuVars, audio_thread, input_attached, pressed_keys, ncycles>>

EngineWrite ==
    /\ engine_thread.pc = "write"
    /\ buzzer' = [Locked(buzzer, engine_thread.op) EXCEPT !.lock.holder = "none"]
    /\ engine_thread' = EngineIdle
    /\ last' = Op(engine_thread.op, buzzer.state.phase, 0, OK, None)
    /\ UNCHANGED <<cpuVars, audio_thread, input_attached, pressed_keys, ncycles>>

CallbackInvoke ==
    /\ audio_thread.pc = "idle"
    /\ ncycles < MaxCalls
    /\ audio_thread' = [audio_thread EXCEPT !.pc = "lock", !.data = StaleData,
                                            !.frame = 0, !.poisoned = FALSE]
    /\ last' = Op("callback", buzzer.state.phase, 1, OK, None)
    /\ ncycles' = ncycles + 1
    /\ UNCHANGED <<cpuVars, buzzer, engine_thread, input_attached, pressed_keys>>

\* `if let Ok(mut state) = buzzer_state.lock() { .. } else { .. }`: the Err of
\* a poisoned mutex holds the guard; it is dropped before the else block or
\* at the end of the statement, depending on the language edition
CallbackLock ==
    /\ audio_thread.pc = "lock"
    /\ buzzer.lock.holder = "none"
    /\ IF buzzer.lock.poisoned
       THEN /\ audio_thread' = [audio_thread EXCEPT !.pc = "silence", !.poisoned = TRUE]
            /\ \E held \in BOOLEAN :
                 buzzer' = [buzzer EXCEPT !.lock.holder =
                                             IF held THEN "callback" ELSE "none"]
       ELSE /\ audio_thread' = [audio_thread EXCEPT !.pc = "fill", !.frame = 1]
            /\ buzzer' = [buzzer EXCEPT !.lock.holder = "callback"]
    /\ last' = Op("callback", buzzer.state.phase, 1, OK, None)
    /\ UNCHANGED <<cpuVars, engine_thread, input_attached, pressed_keys, ncycles>>

CallbackFrame ==
    /\ audio_thread.pc = "fill"
    /\ audio_thread.frame <= Frames(audio_thread.data, audio_thread.channels)
    /\ LET r == fill_frame(buzzer.state, audio_thread.data, audio_thread.format,
                           audio_thread.channels, audio_thread.frame)
       IN /\ buzzer' = [buzzer EXCEPT !.state = r.state]
          /\ audio_thread' = [audio_thread EXCEPT !.data = r.data, !.frame = @ + 1]
    /\ last' = Op("callback", buzzer.state.phase, 1, OK, None)
    /\ UNCHANGED <<cpuVars, engine_thread, input_attached, pressed_keys, ncycles>>

CallbackSilence ==
    /\ audio_thread.pc = "silence"
    /\ audio_thread' = [audio_thread EXCEPT
                          !.pc = "return",
                          !.data = fill_silence(audio_thread.data, audio_thread.format)]
    /\ last' = Op("callback", buzzer.state.phase, 1, OK, None)
    /\ UNCHANGED <<cpuVars, buzzer, engine_thread, input_attached, pressed_keys, ncycles>>

\* the callback returns; a guard it still holds is dropped
CallbackReturn ==
    /\ \/ audio_thread.pc = "return"
       \/ /\ audio_thread.pc = "fill"
          /\ audio_thread.frame > Frames(audio_thread.data, audio_thread.channels)
    /\ audio_thread' = [audio_thread EXCEPT !.pc = "idle"]
    /\ buzzer' = IF buzzer.lock.holder = "callback"
                 THEN [buzzer EXCEPT !.lock.holder = "none"]
                 ELSE buzzer
    /\ last' = Op("callback", buzzer.state.phase, 1, OK, None)
    /\ UNCHANGED <<cpuVars, engine_thread, input_attached, pressed_keys, ncycles>>

\* another holder of the shared state panics with the lock held
Poison ==
    /\ buzzer.lock.holder = "none"
    /\ ~buzzer.lock.poisoned
    /\ buzzer' = [buzzer EXCEPT !.lock.poisoned = TRUE]
    /\ last' = Op("poison", buzzer.state.phase, 2, OK, None)
    /\ UNCHANGED <<cpuVars, engine_thread, audio_thread, input_attached,
                   pressed_keys, ncycles>>

EngineStep == EngineCall \/ EngineLock \/ EngineWrite

CallbackStep ==
    CallbackInvoke \/ CallbackLock \/ CallbackFrame \/ CallbackSilence \/ CallbackReturn

NextBuzzer == EngineStep \/ CallbackStep \/ Poison

SpecBuzzer == InitBuzzer /\ [][NextBuzzer]_vars

(***************************************************************************)
(* Sprites at the end of memory: one Dxyn cycle with a display attached,   *)
(* I inside memory, two cells before its end and past it, and sprite bytes  *)
(* in the last two cells and the first three.                               *)
(***************************************************************************)
\* one bit per row, each in its own column
SpriteCells == (4094 :> 128) @@ (4095 :> 64) @@ (0 :> 32) @@ (1 :> 16) @@ (2 :> 8)

\* the memory m with the cells of `cells` written (by a load or by Fx55)
WithCells(m, cells) ==
    [m EXCEPT !.data = [a \in (DOMAIN m.data) \cup (DOMAIN cells) |->
                          IF a \in DOMAIN cells THEN cells[a] ELSE m.data[a]]]

\* DRW V1,V2,n
SpriteWords == {H(13,1,2,n) : n \in {0, 1, 2, 5}}

SpriteBases == {80, 4094, 4095, 4096, 65535}

InitSprite ==
    /\ \E w \in SpriteWords, iv \in SpriteBases, wrap \in BOOLEAN, pos \in {0, 8} :
         CpuIs(PlaceWord([Cpu_new_with_config(wrap) EXCEPT
                            !.memory = WithCells(@, SpriteCells),
                            !.registers.v = RegsWith(pos, pos),
                            !.registers.i = iv,
                            !.display = SoftwareDisplay_new],
                         PROGRAM_START, w))
    /\ input_attached = FALSE
    /\ pressed_keys = {}
    /\ last = Op("new", 0, 0, OK, None)
    /\ AudioSystem_unused
    /\ ncycles = 0

SpecSprite == InitSprite /\ [][CycleOnce]_vars

(***************************************************************************)
(* Every instruction word, with what follows it: a CPU with an input       *)
(* source that has just loaded a one-word program runs a few cycles, and   *)
(* keys go down and up while the program waits for one.                    *)
(***************************************************************************)
OpcodeCycles == 3       \* cycles explored after the load

InitOpcodes ==
    /\ \E w \in 0..(U16 - 1) :
         CpuIs(Cpu_load_rom(Cpu_new, create_test_rom(<< w >>)).c)
    /\ input_attached = TRUE
    /\ pressed_keys = {}
    /\ last = Op("load_rom", 2, 0, OK, None)
    /\ AudioSystem_unused
    /\ ncycles = 0

CycleOpcode == ncycles < OpcodeCycles /\ Cycle

PressWhileWaiting == waiting_for_key /\ PressKey

ReleaseWhileWaiting == waiting_for_key /\ ReleaseKey

NextOpcodes == CycleOpcode \/ PressWhileWaiting \/ ReleaseWhileWaiting

SpecOpcodes == InitOpcodes /\ [][NextOpcodes]_vars

(***************************************************************************)
(* Waiting for a key: a CPU with an input source has run LD Vx,K and goes  *)
(* on cycling while it waits; keys go down and up meanwhile.  The cycles   *)
(* are not counted here, so that a wait can last for ever, and the run is  *)
(* followed up to the cycle that ends the wait.                            *)
(***************************************************************************)
InitKeyWait ==
    /\ pressed_keys \in SUBSET Keys
    /\ input_attached = TRUE
    /\ \E x \in 0..(NUM_REGISTERS - 1) :
         \E c \in {Cpu_load_rom(Cpu_new, create_test_rom(<< H(15,x,0,10) >>)).c} :
           \E r \in {cycle(c, Inp, 0, 0, FALSE)} :
             /\ CpuIs(r.c)
             /\ last = Op("cycle", 0, 0, r.res, r.fetched)
    /\ AudioSystem_unused
    /\ ncycles = 1

\* cycle() for as long as the CPU waits
CycleWait ==
    /\ waiting_for_key
    /\ \E periods \in ElapsedPeriods, random_byte \in GeneratedBytes, oc \in BOOLEAN :
         \E r \in {cycle(CpuRec, Inp, periods, random_byte, oc)} :
           /\ SetCpu(r.c)
           /\ last' = Op("cycle", 0, 0, r.res, r.fetched)
    /\ UNCHANGED <<input_attached, pressed_keys, ncycles>>

\* a cycle that finds a key down
CycleKeyDown == pressed_keys # {} /\ CycleWait

\* a cycle that finds the captured key up
CycleCapturedUp ==
    /\ waiting_for_key_release # None
    /\ waiting_for_key_release \notin pressed_keys
    /\ CycleWait

\* the environment presses a key while none is down
PressFirst == pressed_keys = {} /\ waiting_for_key_release = None /\ PressWhileWaiting

\* the environment releases the captured key
ReleaseCaptured ==
    /\ waiting_for_key_release \in pressed_keys
    /\ pressed_keys' = pressed_keys \ {waiting_for_key_release}
    /\ UNCHANGED <<cpuVars, audioVars, input_attached, last, ncycles>>

NextKeyWait == CycleWait \/ PressWhileWaiting \/ ReleaseWhileWaiting

\* The main loop keeps calling cycle().  The environment is the one the
\* sentence about the wait supposes: a key goes down and is down across a
\* cycle, and later the captured key goes up and is up during a cycle.
SpecKeyWait ==
    /\ InitKeyWait
    /\ [][NextKeyWait]_vars
    /\ WF_vars(CycleWait)
    /\ WF_vars(PressFirst)
    /\ WF_vars(ReleaseCaptured)
    /\ SF_vars(CycleKeyDown)
    /\ SF_vars(CycleCapturedUp)

(***************************************************************************)
(* Loads and logic: one of 6xnn, 7xnn, 8xy0, 8xy1, 8xy2, 8xy3 at           *)
(* PROGRAM_START runs for one cycle.  V0, V1 and VF hold sample bytes, the *)
(* other registers their own index; I, the stack and the delay timer are   *)
(* set so that a change to them would show.                                *)
(***************************************************************************)
AssignBytes == {0, 1, 170, 255}

AssignWords ==
    {H(n1, x, nn \div 16, nn % 16) : n1 \in {6, 7}, x \in RegIndices, nn \in AssignBytes}
    \cup {H(8, x, y, n) : x \in RegIndices, y \in RegIndices, n \in 0..3}

InitAssign ==
    /\ \E w \in AssignWords, a \in AssignBytes, b \in AssignBytes, f \in AssignBytes :
         CpuIs(PlaceWord([Cpu_new EXCEPT
                            !.registers.v =
                                [k \in 0..(NUM_REGISTERS - 1) |->
                                    IF k = 0 THEN a
                                    ELSE IF k = 1 THEN b
                                    ELSE IF k = FLAG_REGISTER THEN f ELSE k],
                            !.registers.i = 768,
                            !.stack = push(Stack_new, 518).s,
                            !.timers = set_delay_timer(Timers_new, 3)],
                         PROGRAM_START, w))
    /\ input_attached = FALSE
    /\ pressed_keys = {}
    /\ last = Op("new", 0, 0, OK, None)
    /\ AudioSystem_unused
    /\ ncycles = 0

SpecAssign == InitAssign /\ [][CycleOnce]_vars

(***************************************************************************)
(* Properties                                                              *)
(***************************************************************************)
\* a step of the driver that is one cycle() call
IsCycle == ncycles' = ncycles + 1

\* ... that fetched a word / that fetched a word and returned Ok
Fetched == IsCycle /\ last'.fetched # None
Executed == Fetched /\ IsOk(last'.res)

\* fields of the word the step fetched
W == last'.fetched
N1 == W \div 4096
X == (W \div 256) % 16
Y == (W \div 16) % 16
N == W % 16
NN == W % 256
NNN == W % 4096

RET == 238        \* 0x00EE

\* the key Vx is down, as the two skip-on-key instructions see it
KeyDown(x) == input_attached /\ v[x] \in 0..15 /\ v[x] \in pressed_keys
KeyUp(x) == ~input_attached \/ (v[x] \in 0..15 /\ v[x] \notin pressed_keys)

\* the condition under which the fetched word skips the next instruction
SkipTaken ==
    \/ N1 = 3 /\ v[X] = NN
    \/ N1 = 4 /\ v[X] # NN
    \/ N1 = 5 /\ v[X] = v[Y]
    \/ N1 = 9 /\ v[X] # v[Y]
    \/ N1 = 14 /\ NN = 158 /\ KeyDown(X)
    \/ N1 = 14 /\ NN = 161 /\ KeyUp(X)

\* C1: a cycle that executes an instruction at PC = p successfully ends with
\* PC = nnn for 1nnn and 2nnn, nnn + V0 for Bnnn, the popped address for
\* 00EE, and otherwise p + 2, or p + 4 when a skip is taken (16-bit PC): the
\* generic +2 precedes dispatch and is not applied again after it.
C1_PcAfterCycle ==
    [][Executed =>
         pc' = CASE N1 \in {1, 2} -> NNN
                 [] N1 = 11 -> NNN + v[0]
                 [] W = RET -> stack_data[stack_sp - 1]
                 [] OTHER -> IF SkipTaken THEN (pc + 4) % U16
                                          ELSE (pc + 2) % U16]_vars

\* a call at 0x200 has just been executed and PC is its target
C1_Witness ==
    /\ last.op = "cycle" /\ IsOk(last.res)
    /\ last.fetched = H(2,2,0,6)
    /\ pc = 518 /\ ncycles = 1 /\ stack_sp = 1

StackUnchanged == stack_data' = stack_data /\ stack_sp' = stack_sp

\* C2: a cycle made while the CPU awaits a key fetches and executes
\* nothing: PC, the instruction counter, I, memory and the call stack are
\* unchanged; no register but the target register changes, and that one
\* only in the cycle that sees the captured key released.
C2_KeyWaitCycleFrame ==
    [][(IsCycle /\ waiting_for_key) =>
         /\ last'.fetched = None
         /\ pc' = pc /\ instruction_count' = instruction_count /\ i' = i
         /\ mem_data' = mem_data
         /\ StackUnchanged
         /\ \A k \in 0..15 : k # key_wait_register => v'[k] = v[k]
         /\ v' # v => /\ input_attached
                      /\ waiting_for_key_release # None
                      /\ waiting_for_key_release \notin pressed_keys
                      /\ ~waiting_for_key']_vars

\* a waiting cycle has run and left the CPU release-pending
C2_Witness ==
    /\ last.op = "cycle" /\ IsOk(last.res) /\ last.fetched = None
    /\ waiting_for_key /\ waiting_for_key_release # None
    /\ input_attached /\ ncycles >= 2

WaitUnchanged ==
    /\ waiting_for_key' = waiting_for_key
    /\ key_wait_register' = key_wait_register
    /\ waiting_for_key_release' = waiting_for_key_release

\* C3: Fx0A enters key-wait with target x, press-pending.  With an input
\* source attached, a waiting cycle that sees no key down changes nothing;
\* one that sees a key down while press-pending becomes release-pending on
\* a key that is down and writes no register; one that sees the captured
\* key k up writes k into Vx and returns to Running.  So the press cycle
\* never writes Vx and resolving a press takes at least two waiting cycles.
C3_KeyWaitProtocol ==
    [][/\ (Executed /\ N1 = 15 /\ NN = 10) =>
            /\ waiting_for_key' /\ key_wait_register' = X
            /\ waiting_for_key_release' = None
       /\ (IsCycle /\ waiting_for_key /\ input_attached) =>
            /\ (waiting_for_key_release = None /\ pressed_keys = {}) =>
                  WaitUnchanged /\ v' = v
            /\ (waiting_for_key_release = None /\ pressed_keys # {}) =>
                  /\ waiting_for_key'
                  /\ key_wait_register' = key_wait_register
                  /\ waiting_for_key_release' \in pressed_keys
                  /\ v' = v
            /\ (waiting_for_key_release # None
                  /\ waiting_for_key_release \in pressed_keys) =>
                  WaitUnchanged /\ v' = v
            /\ (waiting_for_key_release # None
                  /\ waiting_for_key_release \notin pressed_keys) =>
                  /\ v' = [v EXCEPT ![key_wait_register] = waiting_for_key_release]
                  /\ ~waiting_for_key'
                  /\ waiting_for_key_release' = None]_vars

\* LD V1,K has been resolved by a press and release of key 1
C3_Witness ==
    /\ last.op = "cycle" /\ IsOk(last.res) /\ last.fetched = None
    /\ ~waiting_for_key /\ input_attached
    /\ v[1] = 1 /\ pc = 514 /\ instruction_count = 1

\* the live stack entries, bottom to top
Contents == get_contents(StackRec)

\* C4: 2nnn at address p pushes p + 2 and sets PC = nnn; 00EE pops the most
\* recently pushed address into PC; no other instruction touches the stack.
\* The live entries therefore behave as a LIFO sequence: a return resumes
\* after its matching call and restores the depth the call found.
C4_CallReturnLifo ==
    [][Executed =>
         /\ N1 = 2 => /\ Contents' = Append(Contents, (pc + 2) % U16)
                      /\ pc' = NNN
         /\ W = RET => Contents = Append(Contents', pc')
         /\ (N1 # 2 /\ W # RET) => Contents' = Contents]_vars

\* both returns of the nested-call program have been executed: the outer
\* call at 0x200 is resumed at 0x202 with an empty stack
C4_Witness ==
    /\ last.op = "cycle" /\ IsOk(last.res) /\ last.fetched = RET
    /\ pc = 514 /\ stack_sp = 0 /\ ncycles = 4 /\ instruction_count = 4

\* C5: under any sequence of push, pop, peek and reset the depth stays in
\* 0..16; push fails with StackOverflow exactly at depth 16, pop and peek
\* fail with StackUnderflow exactly at depth 0; a failing operation leaves
\* depth and live contents unchanged, and peek never changes the stack.
C5_StackDepthAndFailures ==
    [][/\ stack_sp \in 0..STACK_SIZE /\ stack_sp' \in 0..STACK_SIZE
       /\ last'.op = "push" =>
            /\ (last'.res = Err("StackOverflow", 0)) <=> (stack_sp = STACK_SIZE)
            /\ IsOk(last'.res) <=> (stack_sp < STACK_SIZE)
            /\ ~IsOk(last'.res) => StackUnchanged /\ Contents' = Contents
            /\ IsOk(last'.res) => Contents' = Append(Contents, last'.a)
       /\ last'.op = "pop" =>
            /\ (last'.res = Err("StackUnderflow", 0)) <=> (stack_sp = 0)
            /\ IsOk(last'.res) <=> (stack_sp > 0)
            /\ ~IsOk(last'.res) => StackUnchanged /\ Contents' = Contents
            /\ IsOk(last'.res) => Contents = Append(Contents', last'.b)
       /\ last'.op = "peek" =>
            /\ (last'.res = Err("StackUnderflow", 0)) <=> (stack_sp = 0)
            /\ IsOk(last'.res) <=> (stack_sp > 0)
            /\ StackUnchanged /\ Contents' = Contents
            /\ IsOk(last'.res) => last'.b = Contents[Len(Contents)]]_vars

\* a push on the full stack has just been refused
C5_Witness ==
    /\ last.op = "push" /\ last.res = Err("StackOverflow", 0)
    /\ stack_sp = STACK_SIZE
    /\ Contents[1] = 768 /\ Contents[STACK_SIZE] = 514

\* the timers after some number of elapsed periods
Ticked ==
    \E k \in 0..MaxTicks :
        [delay_timer |-> delay_timer', sound_timer |-> sound_timer']
          = update_by_ticks([delay_timer |-> delay_timer,
                             sound_timer |-> sound_timer], k)

\* the value a failing cycle leaves in the memory cell a: Fx55 has stored
\* V0.. up to the last address below MEMORY_SIZE, Fx33 the leading digits
CellAfterFailure(a) ==
    IF N1 = 15 /\ NN = 85 /\ a >= i /\ a <= i + X
    THEN v[a - i]
    ELSE IF N1 = 15 /\ NN = 51 /\ a = i THEN v[X] \div 100
    ELSE IF N1 = 15 /\ NN = 51 /\ a = i + 1 THEN (v[X] \div 10) % 10
    ELSE Cell(mem_data, a)

\* the value a failing cycle leaves in register k: Fx65 has loaded V0.. from
\* the addresses below MEMORY_SIZE
RegAfterFailure(k) ==
    IF N1 = 15 /\ NN = 101 /\ k <= X /\ i + k < MEMORY_SIZE
    THEN Cell(mem_data, i + k)
    ELSE v[k]

\* C6: cycle() returns the first failure and rolls nothing back.  A failing
\* fetch leaves PC, registers, memory, stack and the instruction counter
\* unchanged; a failing execution leaves PC advanced by 2, the counter not
\* incremented and exactly the writes made before the failing step.
C6_FailureEffects ==
    [][(IsCycle /\ ~IsOk(last'.res) /\ last'.res # PANIC) =>
         /\ ~waiting_for_key
         /\ instruction_count' = instruction_count
         /\ StackUnchanged /\ WaitUnchanged /\ Ticked
         /\ i' = i /\ sp' = sp /\ display' = display
         /\ last'.fetched = None =>
              /\ last'.res.kind = "InvalidMemoryAccess"
              /\ ~wraparound_enabled
              /\ pc + 1 >= MEMORY_SIZE
              /\ pc' = pc /\ v' = v /\ mem_data' = mem_data
         /\ last'.fetched # None =>
              /\ pc' = (pc + 2) % U16
              /\ \A k \in 0..15 : v'[k] = RegAfterFailure(k)
              /\ \A a \in 0..(MEMORY_SIZE - 1) :
                    Cell(mem_data', a) = CellAfterFailure(a)]_vars

\* LD [I],V2 with I = 0xFFE has failed on its third byte: V0 and V1 are
\* stored, PC is past the instruction, only the two earlier loads count
C6_Witness ==
    /\ last.op = "cycle" /\ last.res = Err("InvalidMemoryAccess", 4096)
    /\ last.fetched = H(15,2,5,5)
    /\ Cell(mem_data, 4094) = 0 /\ Cell(mem_data, 4095) = 123
    /\ pc = 520 /\ instruction_count = 2 /\ ncycles = 4

\* the words the decoder rejects, as the instruction set lists them
UnknownWord(w) ==
    LET n1 == w \div 4096
        n == w % 16
        kk == w % 256
    IN \/ n1 = 5 /\ n # 0
       \/ n1 = 8 /\ n \in {8, 9, 10, 11, 12, 13, 15}
       \/ n1 = 9 /\ n # 0
       \/ n1 = 14 /\ kk \notin {158, 161}
       \/ n1 = 15 /\ kk \notin {7, 10, 21, 24, 30, 41, 51, 85, 101}

\* C7: a fetched word fails with UnknownInstruction, carrying the word,
\* exactly when it is 5xyN (N # 0), 8xyN (N in 8..D or F), 9xyN (N # 0),
\* Exkk (kk not 9E, A1) or Fxkk (kk not 07, 0A, 15, 18, 1E, 29, 33, 55,
\* 65).  The failing decode changes nothing: after the cycle the state is
\* the one handed to the decoder (timers ticked, PC past the word).
C7_UnknownInstruction ==
    [][Fetched =>
         /\ (last'.res.kind = "UnknownInstruction") <=> UnknownWord(W)
         /\ UnknownWord(W) =>
              /\ last'.res = Err("UnknownInstruction", W)
              /\ v' = v /\ i' = i /\ sp' = sp /\ mem_data' = mem_data
              /\ StackUnchanged /\ WaitUnchanged /\ Ticked
              /\ display' = display
              /\ instruction_count' = instruction_count
              /\ pc' = (pc + 2) % U16]_vars

\* the word 0xFFFF has just been rejected
C7_Witness ==
    /\ last.op = "cycle" /\ last.res = Err("UnknownInstruction", 65535)
    /\ last.fetched = 65535
    /\ pc = 514 /\ instruction_count = 0 /\ ncycles = 1

\* the big-endian word held at address a
WordAt(a) == Cell(mem_data, a) * 256 + Cell(mem_data, a + 1)

\* an instruction that neither jumps, calls, returns nor skips
NonControlFlow(w) ==
    /\ ~UnknownWord(w)
    /\ w \div 4096 \notin {1, 2, 3, 4, 5, 9, 11, 14}
    /\ w # RET

\* the first k words of the program area are non-control-flow instructions
StraightLine(k) ==
    \A j \in 0..(k - 1) : NonControlFlow(WordAt(PROGRAM_START + 2 * j))

\* the instruction counter goes up by exactly 1 in a cycle that executes an
\* instruction successfully (Fx0A included), is unchanged by every other
\* cycle, and otherwise changes only when reset() clears it
CounterSteps ==
    /\ Executed => instruction_count' = instruction_count + 1
    /\ instruction_count' # instruction_count =>
          \/ Executed
          \/ last'.op = "reset" /\ ncycles' = 0 /\ instruction_count' = 0

\* C8 as stated: CounterSteps, and a straight-line program of k
\* non-control-flow instructions run for k cycles from 0x200 ends with
\* PC = 0x200 + 2k and counter = k.
C8_Original ==
    /\ [][CounterSteps]_vars
    /\ [](StraightLine(ncycles) =>
            /\ pc = PROGRAM_START + 2 * ncycles
            /\ instruction_count = ncycles)

\* C8 (amended): CounterSteps, and a straight-line program of k
\* non-control-flow instructions run for k cycles from 0x200, each of which
\* successfully executes an instruction (so that the counter is k), ends
\* with PC = 0x200 + 2k.
C8_InstructionCounter ==
    /\ [][CounterSteps]_vars
    /\ []((StraightLine(ncycles) /\ instruction_count = ncycles) =>
            pc = PROGRAM_START + 2 * ncycles)

\* LD V1,5; ADD V1,0x10; LD I,0x456 has run for three cycles
C8_Witness ==
    /\ ncycles = 3 /\ instruction_count = 3 /\ pc = 518
    /\ v[1] = 21 /\ i = 1110
    /\ last.op = "cycle" /\ last.fetched = H(10,4,5,6)

\* the registers other than Vx and VF are left alone by the last operation
OthersUnchanged(x) ==
    /\ \A k \in 0..15 : k \notin {x, FLAG_REGISTER} => v'[k] = v[k]
    /\ i' = i /\ pc' = pc /\ sp' = sp

\* the last step was the named register operation, called directly or
\* through its instruction 8xyN
Did(name, n) ==
    \/ last'.op = name
    \/ last'.op = "execute_instruction" /\ last'.fetched % 16 = n

\* C9: 8xy4 / add_with_carry(x, y) succeeds for all x, y and bytes, leaves VF = 1
\* if old Vx + old Vy > 255 and 0 otherwise, and, when x # F, leaves
\* Vx = (old Vx + old Vy) mod 256.
C9_AddWithCarry ==
    [][Did("add_with_carry", 4) =>
         LET x == last'.a
             y == last'.b
         IN /\ IsOk(last'.res)
            /\ v'[FLAG_REGISTER] = IF v[x] + v[y] > 255 THEN 1 ELSE 0
            /\ x # FLAG_REGISTER => v'[x] = (v[x] + v[y]) % 256
            /\ OthersUnchanged(x)]_vars

\* VF = 255 was added to V1 = 1 with VF as destination: what remains in VF
\* is the carry, not the sum 0
C9_Witness ==
    /\ last.op = "add_with_carry" /\ last.a = 15 /\ last.b = 1
    /\ v[1] = 1 /\ v[15] = 1

Diff(a, b) == IF a >= b THEN a - b ELSE 256 + a - b

\* C10 as stated: for all x, y, 8xy5 / sub_with_borrow leaves
\* Vx = (old Vx - old Vy) mod 256 and VF = 1 iff old Vx >= old Vy, and
\* sub_reverse_with_borrow the same with the operands exchanged.
C10_Original ==
    [][/\ Did("sub_with_borrow", 5) =>
            /\ v'[last'.a] = Diff(v[last'.a], v[last'.b])
            /\ v'[FLAG_REGISTER] = IF v[last'.a] >= v[last'.b] THEN 1 ELSE 0
       /\ Did("sub_reverse_with_borrow", 7) =>
            /\ v'[last'.a] = Diff(v[last'.b], v[last'.a])
            /\ v'[FLAG_REGISTER] = IF v[last'.b] >= v[last'.a] THEN 1 ELSE 0]_vars

\* C10 (amended): for all x, y, 8xy5 / sub_with_borrow leaves VF = 1 iff
\* old Vx >= old Vy and, when x # F, Vx = (old Vx - old Vy) mod 256;
\* sub_reverse_with_borrow the same with the operands exchanged.  When
\* x = F it is the flag that remains in VF.
C10_SubWithBorrow ==
    [][/\ Did("sub_with_borrow", 5) =>
            LET x == last'.a
                y == last'.b
            IN /\ IsOk(last'.res)
               /\ v'[FLAG_REGISTER] = IF v[x] >= v[y] THEN 1 ELSE 0
               /\ x # FLAG_REGISTER => v'[x] = Diff(v[x], v[y])
               /\ OthersUnchanged(x)
       /\ Did("sub_reverse_with_borrow", 7) =>
            LET x == last'.a
                y == last'.b
            IN /\ IsOk(last'.res)
               /\ v'[FLAG_REGISTER] = IF v[y] >= v[x] THEN 1 ELSE 0
               /\ x # FLAG_REGISTER => v'[x] = Diff(v[y], v[x])
               /\ OthersUnchanged(x)]_vars

\* V0 = 16 minus V1 = 127 borrowed: V0 = 145 and VF = 0
C10_Witness ==
    /\ last.op = "sub_with_borrow" /\ last.a = 0 /\ last.b = 1
    /\ v[0] = 145 /\ v[1] = 127 /\ v[15] = 0

\* C11: for every x, y and byte value, 8xy6 / shift_right(x) succeeds, leaves
\* VF = bit 0 of old Vx and, when x # F, Vx = old Vx >> 1; 8xyE /
\* shift_left(x) leaves VF = bit 7 of old Vx and, when x # F,
\* Vx = (old Vx << 1) mod 256.  Vy plays no part, and when x = F the flag is
\* what remains in VF.
C11_Shifts ==
    [][/\ Did("shift_right", 6) =>
            LET x == last'.a
            IN /\ IsOk(last'.res)
               /\ v'[FLAG_REGISTER] = v[x] % 2
               /\ x # FLAG_REGISTER => v'[x] = v[x] \div 2
               /\ OthersUnchanged(x)
       /\ Did("shift_left", 14) =>
            LET x == last'.a
            IN /\ IsOk(last'.res)
               /\ v'[FLAG_REGISTER] = v[x] \div 128
               /\ x # FLAG_REGISTER => v'[x] = (2 * v[x]) % 256
               /\ OthersUnchanged(x)]_vars

\* 8F1E has shifted VF = 255 left with V1 = 1 as the ignored operand: VF
\* holds the old bit 7, not 254
C11_Witness ==
    /\ last.op = "execute_instruction" /\ last.fetched = H(8,15,1,14)
    /\ v[15] = 1 /\ v[1] = 1 /\ v[0] = 127

\* the buffer indices of the cells ((x + c) mod 64, (y + r) mod 32) whose
\* sprite bit (7 - c) of row r is 1
Toggled(x, y, sprite) ==
    {((y + rc[1]) % DISPLAY_HEIGHT) * DISPLAY_WIDTH + ((x + rc[2]) % DISPLAY_WIDTH) :
        rc \in {p \in (0..(Len(sprite) - 1)) \X (0..7) :
                    (sprite[p[1] + 1] \div (2 ^ (7 - p[2]))) % 2 = 1}}

SymDiff(A, B) == (A \ B) \cup (B \ A)

\* the u8 additions x + col or y + row of a draw exceed 255
DrawOverflows(x, y, sprite) ==
    \/ Len(sprite) > 0 /\ x + 7 > 255
    \/ y + Len(sprite) - 1 > 255

\* C12 as stated: draw_sprite(x, y, bytes) succeeds for every x, y in 0..255
\* and every byte sequence, and toggles exactly the cells
\* ((x + c) mod 64, (y + r) mod 32) whose bit (7 - c) of byte r is 1,
\* leaving every other cell unchanged.
C12_Original ==
    [][last'.op = "draw_sprite" =>
         /\ IsOk(last'.res)
         /\ display'.pixels =
              SymDiff(display.pixels, Toggled(last'.a, last'.b, last'.sprite))]_vars

\* C12 (what the code does): a draw whose u8 additions stay within 255
\* succeeds and toggles exactly the claimed cells; one whose additions
\* exceed 255 does the same in a build without overflow checks and panics
\* in a build with them.
C12_DrawSprite ==
    [][last'.op = "draw_sprite" =>
         LET x == last'.a
             y == last'.b
             sprite == last'.sprite
         IN /\ ~DrawOverflows(x, y, sprite) => IsOk(last'.res)
            /\ last'.res \in {OK, PANIC}
            /\ IsOk(last'.res) =>
                 display'.pixels = SymDiff(display.pixels, Toggled(x, y, sprite))]_vars

\* the one-row sprite 0x80 drawn at x = 249 has panicked on 249 + 7,
\* although its only lit column is column 0
C12_Witness ==
    /\ last.op = "draw_sprite" /\ last.res = PANIC
    /\ last.a = 249 /\ last.b = 0 /\ last.sprite = <<128>>

\* a two-row sprite drawn at (255, 255) in a build without overflow checks
\* has wrapped on both axes: row 0 lies on line 31 from column 63 on, row 1
\* on line 0
C12_WitnessWrapped ==
    /\ last.op = "draw_sprite" /\ IsOk(last.res)
    /\ last.a = 255 /\ last.b = 255 /\ last.sprite = <<255, 129>>
    /\ {31 * 64 + 63, 31 * 64 + 0, 63, 6} \subseteq display.pixels

\* C13: a draw that returns reports collision = TRUE iff at least one cell
\* was on when a sprite bit toggled it off, and FALSE otherwise (so FALSE
\* when every toggled cell was off); a colliding cell is left off.
C13_Collision ==
    [][(last'.op = "draw_sprite" /\ IsOk(last'.res)) =>
         LET hit == display.pixels \cap Toggled(last'.a, last'.b, last'.sprite)
         IN /\ last'.val = (hit # {})
            /\ hit \cap display'.pixels = {}]_vars

\* 0xC0 drawn at (1, 0) over the cells 0 and 1 that an earlier 0xC0 lit:
\* cell 1 collided and is off, cell 2 was off and is on
C13_Witness ==
    /\ last.op = "draw_sprite" /\ IsOk(last.res) /\ last.val = TRUE
    /\ last.a = 1 /\ last.b = 0 /\ last.sprite = <<192>>
    /\ display.pixels = {0, 2}

\* the rows Dxyn hands to the display: the bytes at I, I + 1, .. that lie
\* below the end of memory, at most n of them
DrawnRows ==
    LET cnt == IF i >= MEMORY_SIZE THEN 0
               ELSE IF i + N <= MEMORY_SIZE THEN N ELSE MEMORY_SIZE - i
    IN [k \in 1..cnt |-> Cell(mem_data, i + k - 1)]

\* C14: an executed Dxyn with a display attached leaves VF = 1 if the draw
\* turned a lit cell off and VF = 0 otherwise, whatever VF held before, and
\* no other register changed; with no display attached Dxyn succeeds, sets
\* VF = 0 and changes nothing else but PC and the instruction counter.
C14_DrawFlag ==
    [][(Fetched /\ N1 = 13) =>
         /\ (Executed /\ display.attached) =>
              /\ v' = [v EXCEPT ![FLAG_REGISTER] =
                         IF display.pixels \cap Toggled(v[X], v[Y], DrawnRows) # {}
                         THEN 1 ELSE 0]
              /\ display'.pixels =
                   SymDiff(display.pixels, Toggled(v[X], v[Y], DrawnRows))
         /\ ~display.attached =>
              /\ IsOk(last'.res)
              /\ v' = [v EXCEPT ![FLAG_REGISTER] = 0]
              /\ pc' = pc + 2 /\ instruction_count' = instruction_count + 1
              /\ i' = i /\ sp' = sp /\ mem_data' = mem_data
              /\ StackUnchanged /\ WaitUnchanged /\ Ticked
              /\ display' = display]_vars

\* the second D015 of a program has erased the glyph the first one drew at
\* (0, 0), with VF = 0 in between: VF = 1 and the display is blank again
C14_Witness ==
    /\ last.op = "cycle" /\ IsOk(last.res) /\ last.fetched = H(13,0,1,5)
    /\ ncycles = 6 /\ display.attached /\ display.pixels = {}
    /\ v[0] = 0 /\ v[1] = 0 /\ i = 80 /\ v[15] = 1

\* the first DF10 of a program whose VF was 7 has run without a display:
\* VF = 0
C14_WitnessNoDisplay ==
    /\ last.op = "cycle" /\ IsOk(last.res) /\ last.fetched = H(13,15,1,0)
    /\ ncycles = 5 /\ ~display.attached /\ v[15] = 0

\* addresses 0x050..0x09F hold the 80 bytes of the built-in font table
FontIntact ==
    \A k \in 0..(FONT_SIZE - 1) : Cell(mem_data, FONT_START + k) = FONT_SET[k + 1]

\* C15 as stated: after any sequence of memory operations (write_byte,
\* write_word, load at any start address, copy, clear) addresses
\* 0x050..0x09F still hold the built-in font table.
C15_Original == FontIntact

\* C15 (what the code does): the font table is in place in a fresh memory
\* and after every clear(); any other operation leaves the font cells it
\* does not itself address as they were.
C15_FontAfterClear ==
    /\ [](last.op \in {"new", "clear"} => FontIntact)
    /\ [][(last'.op \in {"read_byte", "read_word", "set_wraparound"}
             \/ (~IsOk(last'.res) /\ last'.op # "write_word"))
           => mem_data' = mem_data]_vars

\* write_byte(0x50, 0xAB) has replaced the first byte of glyph 0
C15_Witness ==
    /\ last.op = "write_byte" /\ last.a = FONT_START /\ IsOk(last.res)
    /\ Cell(mem_data, FONT_START) = ByteValue
    /\ ~FontIntact


\* C16: a read_byte or write_byte at an address >= 4096 is settled by the
\* wraparound flag in force when it is called.  With the flag off it
\* returns InvalidMemoryAccess(address) and memory is unchanged; with the
\* flag on it succeeds and acts on the cell address mod 4096.  The flag is
\* what the last set_wraparound (or the constructor) made it: no other
\* operation changes it.
C16_OutOfRange ==
    /\ [][(last'.op \in {"read_byte", "write_byte"} /\ last'.a >= MEMORY_SIZE)
          => /\ wraparound_enabled' = wraparound_enabled
             /\ IF wraparound_enabled
                THEN /\ IsOk(last'.res)
                     /\ IF last'.op = "read_byte"
                        THEN /\ last'.b = Cell(mem_data, last'.a % MEMORY_SIZE)
                             /\ mem_data' = mem_data
                        ELSE mem_data' =
                               SetCell(mem_data, last'.a % MEMORY_SIZE, last'.b)
                ELSE /\ last'.res = Err("InvalidMemoryAccess", last'.a)
                     /\ mem_data' = mem_data]_vars
    /\ [][IF last'.op = "set_wraparound"
          THEN wraparound_enabled' = (last'.a = 1) /\ mem_data' = mem_data
          ELSE wraparound_enabled' = wraparound_enabled]_vars

\* set_wraparound(true) on a memory built without wraparound, then
\* write_byte(0x1050, 0xAB) has stored at 0x050
C16_Witness ==
    /\ last.op = "write_byte" /\ last.a = 4176 /\ IsOk(last.res)
    /\ wraparound_enabled
    /\ Cell(mem_data, 80) = ByteValue

\* write_byte(0xFFFF, 0xAB) with the flag off: rejected, nothing stored
C16_WitnessRejected ==
    /\ last.op = "write_byte" /\ last.a = 65535
    /\ last.res = Err("InvalidMemoryAccess", 65535)
    /\ ~wraparound_enabled
    /\ Modified = {}


\* the memory after the step, as a Memory value
MemoryRecNext == [data |-> mem_data', wraparound_enabled |-> wraparound_enabled']

\* the cell after `a`, as the mode in force addresses it
NextAddress(a) == IF wraparound_enabled THEN (a + 1) % MEMORY_SIZE ELSE a + 1

\* C17 as stated: whenever write_word(a, v) succeeds, read_word(a) returns
\* v, the byte at a is v >> 8 and the byte at the next address is v & 0xFF;
\* in wraparound mode neither word operation fails at any 16-bit address.
C17_Original ==
    [][/\ (last'.op = "write_word" /\ IsOk(last'.res))
          => /\ Cell(mem_data', last'.a % MEMORY_SIZE) = last'.b \div 256
             /\ Cell(mem_data', NextAddress(last'.a)) = last'.b % 256
             /\ \A oc \in BOOLEAN :
                  read_word(MemoryRecNext, last'.a, oc)
                    = [res |-> OK, val |-> last'.b]
       /\ (last'.op \in {"write_word", "read_word"} /\ wraparound_enabled)
          => IsOk(last'.res)]_vars

\* C17 (what the code does): the round trip and the byte order hold
\* whenever write_word returns Ok.  In wraparound mode a word operation
\* returns Ok at every address but 0xFFFF, where `address + 1` leaves the
\* u16 range: there it panics when overflow is checked, and otherwise
\* wraps to cell 0, which is (0xFFFF + 1) mod 4096.
C17_WordRoundTrip ==
    [][/\ (last'.op = "write_word" /\ IsOk(last'.res))
          => /\ Cell(mem_data', last'.a % MEMORY_SIZE) = last'.b \div 256
             /\ Cell(mem_data', NextAddress(last'.a)) = last'.b % 256
             /\ \A oc \in BOOLEAN :
                  LET r == read_word(MemoryRecNext, last'.a, oc)
                  IN \/ r = [res |-> OK, val |-> last'.b]
                     \/ oc /\ last'.a = 65535 /\ r.res = PANIC
             /\ read_word(MemoryRecNext, last'.a, FALSE).val = last'.b
       /\ (last'.op \in {"write_word", "read_word"} /\ wraparound_enabled)
          => \/ IsOk(last'.res)
             \/ last'.a = 65535 /\ last'.res = PANIC]_vars

\* write_word(4095, 0x1234) in wraparound mode: 0x12 at 4095, 0x34 at 0
C17_Witness ==
    /\ last.op = "write_word" /\ last.a = 4095 /\ IsOk(last.res)
    /\ wraparound_enabled
    /\ Cell(mem_data, 4095) = 18
    /\ Cell(mem_data, 0) = 52

\* write_word(0xFFFF, 0x1234) in wraparound mode with overflow checked:
\* the high byte is stored at 4095 and the call panics
C17_WitnessOverflow ==
    /\ last.op = "write_word" /\ last.a = 65535 /\ last.res = PANIC
    /\ wraparound_enabled
    /\ Cell(mem_data, 4095) = 18


\* C18 as stated: for every start address and byte sequence the load
\* returns RomEmpty iff the data is empty, RomTooLarge iff the data is
\* non-empty and start + len > 4096, and succeeds otherwise.
C18_Original ==
    [][last'.op = "load_rom_at"
       => last'.res =
            IF Len(last'.data) = 0 THEN Err("RomEmpty", 0)
            ELSE IF last'.a + Len(last'.data) > MEMORY_SIZE
                 THEN Err("RomTooLarge", Len(last'.data))
                 ELSE OK]_vars

\* C18 (what the code does): as stated for start addresses up to 4096.
\* For a start address above 4096 and non-empty data the call panics
\* (in `MEMORY_SIZE - start`, or in the slice index when that subtraction
\* is not checked) instead of returning RomTooLarge.
C18_LoadResult ==
    [][last'.op = "load_rom_at"
       => last'.res =
            IF Len(last'.data) = 0 THEN Err("RomEmpty", 0)
            ELSE IF last'.a > MEMORY_SIZE THEN PANIC
            ELSE IF last'.a + Len(last'.data) > MEMORY_SIZE
                 THEN Err("RomTooLarge", Len(last'.data))
                 ELSE OK]_vars

\* two bytes loaded at 4094 fill memory to its last address
C18_Witness ==
    /\ last.op = "load_rom_at" /\ last.a = 4094 /\ last.data = <<1, 2>>
    /\ IsOk(last.res)
    /\ Cell(mem_data, 4094) = 1 /\ Cell(mem_data, 4095) = 2

\* three bytes at 4094 are one too many
C18_WitnessTooLarge ==
    /\ last.op = "load_rom_at" /\ last.a = 4094 /\ last.data = <<1, 2, 3>>
    /\ last.res = Err("RomTooLarge", 3)

\* one byte at 4097 panics
C18_WitnessPanic ==
    /\ last.op = "load_rom_at" /\ last.a = 4097 /\ last.data = <<1>>
    /\ last.res = PANIC


\* C19: after a successful load(data, start) the cells start ..
\* start+len-1 hold data, every cell from start+len to 4095 is 0 whatever
\* it held before, and every cell below start is as it was.
C19_LoadContents ==
    [][(last'.op = "load_rom_at" /\ IsOk(last'.res))
       => LET start == last'.a
              data == last'.data
          IN /\ \A k \in 1..Len(data) :
                  Cell(mem_data', start + k - 1) = data[k]
             /\ \A a \in DOMAIN mem_data' :
                  a >= start + Len(data) => mem_data'[a] = 0
             /\ \A a \in DOMAIN mem_data \cup DOMAIN mem_data' :
                  a < start => Cell(mem_data', a) = Cell(mem_data, a)]_vars

\* a one-byte load at address 0 has wiped the font table that was above it
C19_Witness ==
    /\ last.op = "load_rom_at" /\ last.a = 0 /\ last.data = <<1>>
    /\ IsOk(last.res)
    /\ Cell(mem_data, 0) = 1
    /\ \A k \in 0..(FONT_SIZE - 1) : Cell(mem_data, FONT_START + k) = 0

\* a load at 4094 over a byte written at 4095 has left the font below it
C19_WitnessBelow ==
    /\ last.op = "load_rom_at" /\ last.a = 4094 /\ last.data = <<1>>
    /\ IsOk(last.res)
    /\ Cell(mem_data, 4094) = 1 /\ Cell(mem_data, 4095) = 0
    /\ FontIntact


\* C20: a program load that does not return Ok, through Cpu::load_rom or
\* Cpu::load_rom_at (and so through Memory::load_rom_at), leaves every
\* memory cell and the program counter as they were.
C20_FailedLoad ==
    [][(last'.op \in {"load_rom", "load_rom_at"} /\ ~IsOk(last'.res))
       => /\ mem_data' = mem_data
          /\ pc' = pc]_vars

\* after a byte was loaded at 4095, three bytes offered at 4094 are
\* refused: the first program and its PC are still there
C20_Witness ==
    /\ last.op = "load_rom_at" /\ last.a = 4094
    /\ last.res = Err("RomTooLarge", 3)
    /\ pc = 4095
    /\ Cell(mem_data, 4095) = 1 /\ Cell(mem_data, 4094) = 0

\* Cpu::load_rom refusing 3585 bytes after a load at 4094
C20_WitnessDefault ==
    /\ last.op = "load_rom" /\ last.res = Err("RomTooLarge", 3585)
    /\ pc = 4094
    /\ Cell(mem_data, 4094) = 1

\* an empty load refused after a load at 4095
C20_WitnessEmpty ==
    /\ last.op = "load_rom_at" /\ last.res = Err("RomEmpty", 0)
    /\ pc = 4095
    /\ Cell(mem_data, 4095) = 1

Max(a, b) == IF a >= b THEN a ELSE b

\* C21: n ticks starting from (d, s) leave (max(d - n, 0), max(s - n, 0)):
\* each tick takes 1 from a timer that is above 0 and leaves a timer that
\* is 0 at 0, the two timers move independently, and neither leaves 0..255.
C21_Ticks ==
    /\ [][last'.op \in {"update_by_ticks", "update"}
          => /\ delay_timer' = Max(delay_timer - last'.a, 0)
             /\ sound_timer' = Max(sound_timer - last'.a, 0)]_vars
    /\ [](delay_timer \in 0..255 /\ sound_timer \in 0..255)

\* delay set to 10 and sound to 2, then ten single ticks and one more:
\* both timers rest at 0
C21_Witness ==
    /\ last.op = "update_by_ticks" /\ last.a = 1
    /\ ncycles = 2
    /\ delay_timer = 0 /\ sound_timer = 0


\* the cycle executed Fx15 / Fx18
SetsDelay == Executed /\ N1 = 15 /\ NN = 21
SetsSound == Executed /\ N1 = 15 /\ NN = 24

\* C22: across cycle() calls the delay timer rises only in a cycle that
\* executed Fx15 and the sound timer only in one that executed Fx18; in
\* every other cycle, key-wait and failing cycles included, a timer is at
\* most what it was, and both stay in 0..255.
C22_TimersMonotone ==
    /\ [][IsCycle => /\ delay_timer' > delay_timer => SetsDelay
                     /\ sound_timer' > sound_timer => SetsSound]_vars
    /\ [](delay_timer \in 0..255 /\ sound_timer \in 0..255)

\* a key-wait cycle has ticked the timers below the 255 that Fx15 and Fx18
\* wrote
C22_Witness ==
    /\ last.op = "cycle" /\ waiting_for_key /\ last.fetched = None
    /\ delay_timer = 254 /\ sound_timer = 253

\* the second Fx15 has written 1 to the delay timer after the sound timer
\* set to 2 had run out
C22_WitnessRaised ==
    /\ last.op = "cycle" /\ last.fetched = H(15,3,1,5)
    /\ delay_timer = 1 /\ sound_timer = 0
    /\ Cell(mem_data, 513) = 2

\* the unknown word FFFF has failed a cycle while the sound timer runs
C22_WitnessFailing ==
    /\ last.op = "cycle" /\ last.fetched = 65535 /\ ~IsOk(last.res)
    /\ sound_timer = 245


\* the call a sink receives for a sound timer value
Signal(sound) == IF sound > 0 THEN "play_beep" ELSE "stop_beep"

C23_WitnessSameCycle ==
    /\ ncycles = 2 /\ last.fetched = H(15,1,1,8)
    /\ audio.attached /\ audio.called = "stop_beep" /\ ~audio.playing
    /\ sound_timer = 2

\* a key-wait cycle has told the sink to stop after the timer ran out
C23_WitnessKeyWait ==
    /\ last.op = "cycle" /\ last.fetched = None /\ waiting_for_key
    /\ audio.attached /\ audio.called = "stop_beep" /\ ~audio.playing
    /\ sound_timer = 0 /\ v[1] = 2

\* a key-wait cycle has told the sink to go on playing
C23_WitnessKeyWaitPlay ==
    /\ last.op = "cycle" /\ last.fetched = None /\ waiting_for_key
    /\ audio.attached /\ audio.called = "play_beep" /\ audio.playing
    /\ sound_timer = 1


\* the fetched word is one of 3xnn, 4xnn, 5xy0, 9xy0
IsSkipWord == N1 \in {3, 4} \/ (N1 \in {5, 9} /\ N = 0)

\* C24: 3xnn, 4xnn, 5xy0 and 9xy0 never fail; they leave PC two past the
\* next instruction (modulo 65536) exactly when Vx = nn, Vx # nn, Vx = Vy,
\* Vx # Vy respectively, and at the next instruction otherwise; they change
\* no register, memory cell or stack slot, and the timers only tick.
C24_Skips ==
    [][(Fetched /\ IsSkipWord) =>
         /\ IsOk(last'.res)
         /\ pc' = IF SkipTaken THEN (pc + 4) % U16 ELSE (pc + 2) % U16
         /\ v' = v /\ i' = i /\ sp' = sp
         /\ mem_data' = mem_data
         /\ StackUnchanged
         /\ Ticked]_vars

\* SE V1,5 at 0xFFFC with V1 = 5: the skip has carried PC round to 0
C24_Witness ==
    /\ last.op = "cycle" /\ last.fetched = H(3,1,0,5) /\ IsOk(last.res)
    /\ v[1] = 5 /\ pc = 0
    /\ Cell(mem_data, 4092) = 49

\* SNE V1,V2 at 0xFFFE with V1 = V2: no skip, PC is 0
C24_WitnessNotTaken ==
    /\ last.op = "cycle" /\ last.fetched = H(9,1,2,0) /\ IsOk(last.res)
    /\ v[1] = 5 /\ v[2] = 5 /\ pc = 0
    /\ Cell(mem_data, 4094) = 145


\* the fetched word is Ex9E / ExA1
IsSkp == N1 = 14 /\ NN = 158
IsSknp == N1 = 14 /\ NN = 161

\* C25 as stated: for every Vx in 0..255, every PC and every input state,
\* Ex9E skips iff key Vx is pressed and ExA1 skips iff it is not, so one of
\* the two skips; the skip adds 2 to PC modulo 65536 and never fails; with
\* no input source no key is pressed.
C25_Original ==
    [][(Fetched /\ (IsSkp \/ IsSknp)) =>
         LET pressed == input_attached /\ v[X] \in pressed_keys
             skip == IF IsSkp THEN pressed ELSE ~pressed
         IN /\ IsOk(last'.res)
            /\ pc' = IF skip THEN (pc + 4) % U16 ELSE (pc + 2) % U16]_vars

\* C25 (what the code does): with an input source attached and Vx above 15
\* neither instruction skips; otherwise Ex9E skips iff key Vx is down and
\* ExA1 iff it is not.  A skip is `get_pc() + 2` in u16: taken at PC
\* 0xFFFC it panics when overflow is checked and wraps to 0 otherwise.
C25_KeySkips ==
    [][(Fetched /\ (IsSkp \/ IsSknp)) =>
         LET skip == IF IsSkp THEN KeyDown(X) ELSE KeyUp(X)
         IN IF skip /\ pc = U16 - 4
            THEN \/ last'.res = PANIC
                 \/ IsOk(last'.res) /\ pc' = 0
            ELSE /\ IsOk(last'.res)
                 /\ pc' = IF skip THEN (pc + 4) % U16 ELSE (pc + 2) % U16]_vars

\* SKNP V1 with key 1 up and an input source attached has skipped
C25_Witness ==
    /\ last.op = "cycle" /\ last.fetched = H(14,1,10,1) /\ IsOk(last.res)
    /\ input_attached /\ v[1] = 1 /\ pressed_keys = {0, 15}
    /\ pc = 516

\* SKNP V1 with V1 = 16 and an input source attached has not skipped
C25_WitnessNoKey ==
    /\ last.op = "cycle" /\ last.fetched = H(14,1,10,1) /\ IsOk(last.res)
    /\ input_attached /\ v[1] = 16
    /\ pc = 514

\* SKP V1 at 0xFFFC with key 1 down has panicked
C25_WitnessOverflow ==
    /\ last.op = "cycle" /\ last.fetched = H(14,1,9,14) /\ last.res = PANIC
    /\ v[1] = 1 /\ pressed_keys = {1}


\* the fetched word is Fx1E
IsAddI == N1 = 15 /\ NN = 30

\* C26 as stated: Fx1E never fails, sets I to old I + Vx and VF to 1 if the
\* new I is above 0x0FFF and to 0 otherwise; VF is 1 only when this
\* addition carried I past 0x0FFF.
C26_Original ==
    [][(Fetched /\ IsAddI) =>
         /\ IsOk(last'.res)
         /\ i' = (i + v[X]) % U16
         /\ v'[15] = IF i' > 4095 THEN 1 ELSE 0
         /\ v'[15] = 1 => (i <= 4095 /\ i + v[X] > 4095)]_vars

\* C26 (what the code does): Fx1E never fails, sets I to old I + Vx modulo
\* 65536 and VF to 1 if the new I is above 0x0FFF and to 0 otherwise,
\* whether or not the old I was above 0x0FFF already; no other register
\* changes.
C26_AddI ==
    [][(Fetched /\ IsAddI) =>
         /\ IsOk(last'.res)
         /\ i' = (i + v[X]) % U16
         /\ v'[15] = IF i' > 4095 THEN 1 ELSE 0
         /\ \A k \in 0..14 : v'[k] = v[k]
         /\ pc' = (pc + 2) % U16]_vars

\* ADD I,V1 with I = 0xFFF and V1 = 1: I is 0x1000 and VF is 1
C26_Witness ==
    /\ last.op = "cycle" /\ last.fetched = H(15,1,1,14) /\ IsOk(last.res)
    /\ v[1] = 1 /\ i = 4096 /\ v[15] = 1

\* ADD I,V1 with I = 0x1000 and V1 = 0: nothing was added and VF is 1
C26_WitnessAlreadyPast ==
    /\ last.op = "cycle" /\ last.fetched = H(15,1,1,14) /\ IsOk(last.res)
    /\ v[1] = 0 /\ i = 4096 /\ v[15] = 1

\* ADD I,V1 with I = 0xFFFF and V1 = 1: I is 0 and VF is 0
C26_WitnessWrapped ==
    /\ last.op = "cycle" /\ last.fetched = H(15,1,1,14) /\ IsOk(last.res)
    /\ v[1] = 1 /\ i = 0 /\ v[15] = 0


\* the fetched word is Fx55 / Fx65
IsStore == N1 = 15 /\ NN = 85
IsLoad == N1 = 15 /\ NN = 101

\* the cell that register k is transferred to or from
BlockCell(k) ==
    IF wraparound_enabled THEN ((i + k) % U16) % MEMORY_SIZE ELSE i + k
BlockCells(n) == {BlockCell(k) : k \in 0..(n - 1)}

\* the registers the transfer got through: all of V0..Vx, or those below
\* the first address past the end of memory when the mode refuses it
Transferred ==
    IF IsOk(last'.res) THEN X + 1
    ELSE IF i >= MEMORY_SIZE THEN 0 ELSE MEMORY_SIZE - i

\* register contents an intervening instruction may leave behind
Clobbered == {[k \in 0..(NUM_REGISTERS - 1) |-> 0],
              [k \in 0..(NUM_REGISTERS - 1) |-> 255 - k]}

\* Fx65 executed on the state the step leaves, with V0..VF overwritten first,
\* gives back the values V0..Vx had before the step
Restores ==
    \A g \in Clobbered, oc \in BOOLEAN :
        LET r == ld_vx_i([CpuRec EXCEPT !.registers.v = g]', X, oc)
        IN r.res # PANIC =>
              /\ IsOk(r.res)
              /\ \A k \in 0..X : r.c.registers.v[k] = v[k]
              /\ \A k \in (X + 1)..(NUM_REGISTERS - 1) : r.c.registers.v[k] = g[k]

\* C27 as stated: Fx55 copies V0..Vx to memory[I..I+x] and Fx65 copies
\* memory[I..I+x] to V0..Vx; both leave I unchanged, Fx55 changes no register
\* and no other memory, Fx65 changes no memory and no register above Vx, and
\* Fx65 after Fx55 restores V0..Vx.
C27_Original ==
    [][/\ (Fetched /\ IsStore) =>
            /\ IsOk(last'.res)
            /\ \A k \in 0..X : Cell(mem_data', BlockCell(k)) = v[k]
            /\ \A a \in (0..(MEMORY_SIZE - 1)) \ BlockCells(X + 1) :
                   Cell(mem_data', a) = Cell(mem_data, a)
            /\ v' = v /\ i' = i
            /\ Restores
       /\ (Fetched /\ IsLoad) =>
            /\ IsOk(last'.res)
            /\ \A k \in 0..X : v'[k] = Cell(mem_data, BlockCell(k))
            /\ \A k \in (X + 1)..(NUM_REGISTERS - 1) : v'[k] = v[k]
            /\ mem_data' = mem_data /\ i' = i]_vars

\* C27 (what the code does): a transfer that does not panic leaves I
\* unchanged; Fx55 changes no register and only the cells it got through,
\* Fx65 changes no memory and only the registers it got through.  It gets
\* through all of V0..Vx and returns Ok unless an address I+k is refused
\* (past the end of memory, wraparound off), and then it has transferred
\* the registers before that one and returns InvalidMemoryAccess.  Where
\* I+k exceeds 0xFFFF the addition overflows: the cycle panics or the
\* address wraps.  After an Fx55 that returned Ok, Fx65 restores V0..Vx.
C27_StoreLoad ==
    [][(Fetched /\ (IsStore \/ IsLoad) /\ last'.res # PANIC) =>
         /\ i' = i
         /\ IsOk(last'.res) <=> (wraparound_enabled \/ i + X < MEMORY_SIZE)
         /\ ~IsOk(last'.res) => last'.res.kind = "InvalidMemoryAccess"
         /\ IsStore =>
              /\ v' = v
              /\ \A k \in 0..(Transferred - 1) : Cell(mem_data', BlockCell(k)) = v[k]
              /\ \A a \in (0..(MEMORY_SIZE - 1)) \ BlockCells(Transferred) :
                     Cell(mem_data', a) = Cell(mem_data, a)
              /\ IsOk(last'.res) => Restores
         /\ IsLoad =>
              /\ mem_data' = mem_data
              /\ \A k \in 0..(Transferred - 1) : v'[k] = Cell(mem_data, BlockCell(k))
              /\ \A k \in Transferred..(NUM_REGISTERS - 1) : v'[k] = v[k]]_vars

\* the program stored V0..V2 at 0x300, overwrote V0 and loaded the block
\* back: V0 holds its first value again
C27_Witness ==
    /\ ncycles = 3 /\ last.fetched = H(15,2,6,5) /\ IsOk(last.res)
    /\ i = 768 /\ v[0] = 1 /\ v[1] = 2 /\ v[2] = 3
    /\ Cell(mem_data, 768) = 1 /\ Cell(mem_data, 770) = 3

\* LD [I],V2 with I = 0xFFE and wraparound off stored V0 and V1 and failed
C27_WitnessPartial ==
    /\ ncycles = 1 /\ last.fetched = H(15,2,5,5)
    /\ last.res.kind = "InvalidMemoryAccess"
    /\ ~wraparound_enabled /\ i = 4094
    /\ Cell(mem_data, 4094) = v[0] /\ Cell(mem_data, 4095) = v[1]

\* LD [I],V2 with I = 0xFFFF and wraparound on panicked
C27_WitnessOverflow ==
    /\ ncycles = 1 /\ last.fetched = H(15,2,5,5) /\ Panicked
    /\ wraparound_enabled /\ i = 65535


\* the audio sink attached to the CPU returns Err from play_beep and stop_beep
SinkFails == audio.attached /\ audio.failing

\* C28 as stated: when an operation that cycle() invokes on an attached
\* collaborator returns an error, cycle() returns an error.  Every cycle
\* with an audio sink attached calls play_beep or stop_beep on it.
C28_Original ==
    [][(IsCycle /\ SinkFails) => ~IsOk(last'.res)]_vars

\* C28 (what the code does): a cycle calls play_beep or stop_beep on the
\* attached sink and drops the result; the cycle returns what it returns
\* with no sink attached, and leaves the same CPU state but for the sink.
C28_SinkErrorDropped ==
    [][(IsCycle /\ SinkFails) =>
         /\ audio'.called \in {"play_beep", "stop_beep"}
         /\ \E periods \in ElapsedPeriods, random_byte \in GeneratedBytes, oc \in BOOLEAN :
              LET r == cycle([CpuRec EXCEPT !.audio = NoAudio], Inp,
                             periods, random_byte, oc)
              IN /\ last'.res = r.res
                 /\ last'.fetched = r.fetched
                 /\ [CpuRec EXCEPT !.audio = NoAudio]' = r.c]_vars

\* play_beep failed in a cycle that executed an instruction and returned Ok
C28_Witness ==
    /\ last.op = "cycle" /\ IsOk(last.res) /\ last.fetched # None
    /\ SinkFails /\ audio.called = "play_beep" /\ sound_timer > 0

\* stop_beep failed in a cycle that returned Ok
C28_WitnessStop ==
    /\ last.op = "cycle" /\ IsOk(last.res)
    /\ SinkFails /\ audio.called = "stop_beep" /\ sound_timer = 0


\* the step is taken by the engine thread / by the audio thread's callback
IsEngineStep == engine_thread' # engine_thread
IsCallbackStep == audio_thread' # audio_thread

\* C29 as stated: no step of the engine thread (start_tone, stop_tone,
\* set_volume, set_frequency, the buzzer's sample generation) writes the
\* phase of the shared state; only the audio callback does.
C29_Original ==
    [][IsEngineStep => buzzer'.state.phase = buzzer.state.phase]_vars

\* C29 (what the code does): the shared state changes only in a step of a
\* thread that holds the lock, unpoisoned.  The callback writes the phase
\* and nothing else.  Of the engine's methods stop_tone, set_volume and
\* set_frequency leave the phase alone, start_tone sets it to 0 (with
\* playing), and the buzzer's sample generation copies the buzzer's own
\* phase into it.
C29_PhaseWriters ==
    [][/\ buzzer'.state # buzzer.state =>
            /\ ~buzzer.lock.poisoned
            /\ \/ buzzer.lock.holder = "engine" /\ IsEngineStep
               \/ buzzer.lock.holder = "callback" /\ IsCallbackStep
       /\ IsCallbackStep =>
            /\ buzzer'.state.playing = buzzer.state.playing
            /\ buzzer'.state.frequency = buzzer.state.frequency
            /\ buzzer'.state.volume = buzzer.state.volume
       /\ (IsEngineStep /\ engine_thread.pc = "write") =>
            /\ engine_thread.op \in {"stop_tone", "set_volume", "set_frequency"}
                 => buzzer'.state.phase = buzzer.state.phase
            /\ engine_thread.op = "start_tone"
                 => buzzer'.state.phase = 0 /\ buzzer'.state.playing
            /\ engine_thread.op = "next_sample"
                 => /\ buzzer'.state.phase = buzzer.phase
                    /\ [buzzer'.state EXCEPT !.phase = 0]
                         = [buzzer.state EXCEPT !.phase = 0]]_vars

\* start_tone has just put the shared phase back to 0 after the callback
\* had advanced it
C29_Witness ==
    /\ last.op = "start_tone" /\ last.a # 0
    /\ engine_thread.pc = "idle" /\ buzzer.lock.holder = "none"
    /\ buzzer.state.phase = 0 /\ buzzer.state.playing

\* the buzzer's own sample generation has just written its phase over the
\* shared one
C29_WitnessSample ==
    /\ last.op = "next_sample" /\ engine_thread.pc = "idle"
    /\ buzzer.state.phase # last.a /\ buzzer.state.phase = buzzer.phase

\* stop_tone has just written playing and left an advanced phase alone
C29_WitnessStop ==
    /\ last.op = "stop_tone" /\ engine_thread.pc = "idle"
    /\ ~buzzer.state.playing /\ buzzer.state.phase # 0


\* the callback found the lock poisoned and has not returned yet
InPoisonedBranch == audio_thread.pc \in {"silence", "return"} /\ audio_thread.poisoned

\* C30: when the callback finds the lock poisoned it is never blocked, none
\* of its steps reads into or writes the shared state, and it returns with
\* every sample of its buffer silent: 0.0 for f32, 0 for i16 and
\* u16::MAX / 2 for u16.  A callback that finds the lock poisoned takes
\* this branch.
C30_PoisonedSilence ==
    [][/\ (IsCallbackStep /\ audio_thread.pc = "lock" /\ buzzer.lock.poisoned) =>
            audio_thread'.pc = "silence" /\ buzzer'.state = buzzer.state
       /\ InPoisonedBranch =>
            /\ ENABLED CallbackStep
            /\ IsCallbackStep =>
                 /\ buzzer'.state = buzzer.state
                 /\ audio_thread'.pc \in {"return", "idle"}
                 /\ audio_thread'.pc = "idle" =>
                      /\ buzzer'.lock.holder # "callback"
                      /\ \A n \in 1..BufferLen :
                           audio_thread'.data[n] =
                             CASE audio_thread.format = "F32" -> 0
                               [] audio_thread.format = "I16" -> 0
                               [] audio_thread.format = "U16" -> 32767]_vars

\* the callback returned from the poisoned branch with a silent u16 buffer
C30_Witness ==
    /\ audio_thread.pc = "idle" /\ audio_thread.poisoned
    /\ audio_thread.format = "U16" /\ audio_thread.data = [n \in 1..BufferLen |-> 32767]
    /\ buzzer.lock.poisoned /\ buzzer.lock.holder = "none"

\* ... with a silent f32 buffer while the buzzer was playing
C30_WitnessPlaying ==
    /\ audio_thread.pc = "idle" /\ audio_thread.poisoned
    /\ audio_thread.format = "F32" /\ audio_thread.data = [n \in 1..BufferLen |-> 0]
    /\ buzzer.state.playing

\* ... with a silent i16 buffer
C30_WitnessI16 ==
    /\ audio_thread.pc = "idle" /\ audio_thread.poisoned
    /\ audio_thread.format = "I16" /\ audio_thread.data = [n \in 1..BufferLen |-> 0]

\* the callback is in the poisoned branch while the engine thread waits for
\* the lock the callback's statement still holds
C30_WitnessHeld ==
    /\ InPoisonedBranch /\ buzzer.lock.holder = "callback"
    /\ engine_thread.pc = "lock"


\* the engine thread's step is the write of the named method under the lock
Writes(op) == IsEngineStep /\ engine_thread.pc = "write" /\ engine_thread.op = op

\* the engine thread's step is the call of the named method
Calls(op) == IsEngineStep /\ engine_thread.pc = "idle" /\ last'.op = op

\* C31 as stated: start_tone (play_beep) on a buzzer that is already playing
\* leaves the shared tone state (playing, frequency, volume, phase) exactly
\* as it was, and so does stop_tone (stop_beep) on a stopped buzzer.
C31_Original ==
    [][/\ (Writes("start_tone") /\ buzzer.state.playing) =>
            buzzer'.state = buzzer.state
       /\ (Writes("stop_tone") /\ ~buzzer.state.playing) =>
            buzzer'.state = buzzer.state]_vars

\* C31 (what the code does): stop_tone on a stopped buzzer leaves the buzzer
\* and the shared state as they were.  start_tone on a playing buzzer leaves
\* playing, frequency and volume as they were and puts the phase, the
\* buzzer's own and the shared one, back to 0.
C31_RepeatedStartStop ==
    [][/\ (Writes("start_tone") /\ buzzer.state.playing) =>
            buzzer'.state = [buzzer.state EXCEPT !.phase = 0]
       /\ (Calls("start_tone") /\ buzzer.playing) =>
            [buzzer EXCEPT !.phase = 0] = buzzer'
       /\ (Writes("stop_tone") /\ ~buzzer.state.playing) =>
            buzzer'.state = buzzer.state
       /\ (Calls("stop_tone") /\ ~buzzer.playing) =>
            buzzer' = buzzer]_vars

\* the third call is a start_tone on a buzzer that was playing: it has put
\* the phase the callback or the sample generation had advanced back to 0
C31_Witness ==
    /\ ncycles = 3 /\ last.op = "start_tone" /\ last.a # 0
    /\ engine_thread.pc = "idle" /\ ~buzzer.lock.poisoned
    /\ buzzer.state.playing /\ buzzer.state.phase = 0

\* stop_tone on a buzzer that was never started has written playing = false
C31_WitnessStop ==
    /\ ncycles = 1 /\ last.op = "stop_tone" /\ engine_thread.pc = "idle"
    /\ ~buzzer.lock.poisoned /\ ~buzzer.state.playing
    /\ buzzer = AudioBuzzer_new(BuzzerConfig_default)


\* the fetched word is Dxyn
IsDrw == N1 = 13

\* the display after it was handed the rows `sprite` at (Vx, Vy)
Drawn(sprite) ==
    draw_sprite(display, v[X], v[Y], sprite, FALSE).d

\* the n bytes memory[I .. I+n), addresses reduced modulo 4096
RowsOfAll == [k \in 1..N |-> Cell(mem_data, ((i + k - 1) % U16) % MEMORY_SIZE)]

\* the bytes of memory[I .. I+n) that lie below the end of memory
RowsBelowEnd ==
    [k \in 1..(IF i >= MEMORY_SIZE THEN 0
               ELSE IF i + N <= MEMORY_SIZE THEN N ELSE MEMORY_SIZE - i) |->
        Cell(mem_data, i + k - 1)]

\* C32 as stated: with a display attached a Dxyn that succeeds hands the
\* display exactly n rows, the bytes memory[I .. I+n) (modulo 4096 in
\* wraparound mode); with wraparound off and one of the addresses out of
\* range the cycle fails with InvalidAddress (InvalidMemoryAccess in the code).
C32_Original ==
    [][(Fetched /\ IsDrw /\ display.attached) =>
         IF ~wraparound_enabled /\ i + N > MEMORY_SIZE
         THEN last'.res.kind = "InvalidMemoryAccess"
         ELSE IsOk(last'.res) => display' = Drawn(RowsOfAll)]_vars

\* C32 (what the code does): with a display attached Dxyn always succeeds
\* and hands the display the bytes of memory[I .. I+n) whose address is
\* below 4096, in either mode: a sprite that runs past the end of memory
\* is drawn shorter, one that starts past it is drawn empty.
C32_SpriteRows ==
    [][(Fetched /\ IsDrw /\ display.attached) =>
         /\ IsOk(last'.res)
         /\ display' = Drawn(RowsBelowEnd)
         /\ mem_data' = mem_data /\ i' = i]_vars

\* DRW V1,V2,5 with I = 0xFFE, wraparound off, at (0, 0): the cycle returned
\* Ok and two rows are on the display
C32_Witness ==
    /\ last.op = "cycle" /\ last.fetched = H(13,1,2,5) /\ IsOk(last.res)
    /\ ~wraparound_enabled /\ i = 4094 /\ v[1] = 0
    /\ display.pixels = {0, DISPLAY_WIDTH + 1}

\* the same with wraparound on: the rows at 0, 1 and 2 are not drawn
C32_WitnessWraparound ==
    /\ last.op = "cycle" /\ last.fetched = H(13,1,2,5) /\ IsOk(last.res)
    /\ wraparound_enabled /\ i = 4094 /\ v[1] = 0
    /\ display.pixels = {0, DISPLAY_WIDTH + 1}

\* DRW V1,V2,2 with I = 0xFFE: the whole sprite is below the end of memory
C32_WitnessWhole ==
    /\ last.op = "cycle" /\ last.fetched = H(13,1,2,2) /\ IsOk(last.res)
    /\ i = 4094 /\ v[1] = 8
    /\ display.pixels = {8 * DISPLAY_WIDTH + 8, 9 * DISPLAY_WIDTH + 9}


\* C33: cycle() never returns InvalidRegister, whatever word it fetches and
\* in a key-wait cycle too, and the key-wait target register is in 0..15.
C33_NoInvalidRegister ==
    /\ last.res.kind # "InvalidRegister"
    /\ key_wait_register \in 0..(NUM_REGISTERS - 1)

\* LD VF,K has waited, seen key 1 go down and up, and stored it in VF
C33_Witness ==
    /\ last.op = "cycle" /\ IsOk(last.res) /\ ~waiting_for_key
    /\ key_wait_register = 15 /\ v[15] = 1 /\ pc = PROGRAM_START + 2

\* LD VF,[I] has loaded all sixteen registers
C33_WitnessLoad ==
    /\ last.op = "cycle" /\ IsOk(last.res) /\ last.fetched = H(15,15,6,5)

\* XOR VF,VF has executed
C33_WitnessBothF ==
    /\ last.op = "cycle" /\ IsOk(last.res) /\ last.fetched = H(8,15,15,3)


\* the cycle that ends the wait
Resolves == waiting_for_key /\ ~waiting_for_key'

\* C34: with an input source attached, a wait started by Fx0A captures a key
\* only in a cycle across which that key is down and leaves the registers
\* alone; while the release of key k is pending no step changes k, and the
\* wait ends only in a cycle that finds k up, with the target register set
\* to k and nothing else changed, whatever other keys do.  If a key is held
\* down across a cycle and the captured key is later up during a cycle, the
\* CPU leaves the wait.
C34_KeyWait ==
    /\ [][/\ (waiting_for_key /\ waiting_for_key_release = None
                 /\ waiting_for_key_release' # None) =>
               /\ last'.op = "cycle" /\ pressed_keys' = pressed_keys
               /\ waiting_for_key_release' \in pressed_keys
               /\ waiting_for_key' /\ v' = v /\ pc' = pc
          /\ (waiting_for_key /\ waiting_for_key_release # None) =>
               \/ /\ waiting_for_key'
                  /\ waiting_for_key_release' = waiting_for_key_release
                  /\ v' = v /\ pc' = pc
               \/ /\ Resolves
                  /\ pressed_keys' = pressed_keys
                  /\ waiting_for_key_release \notin pressed_keys
                  /\ v' = [v EXCEPT ![key_wait_register] = waiting_for_key_release]
                  /\ waiting_for_key_release' = None /\ pc' = pc
          /\ Resolves => waiting_for_key_release # None]_vars
    /\ waiting_for_key ~> ~waiting_for_key

\* LD V1,K waited, captured key 0 while key 1 was down too, and ended with
\* V1 = 0 in a cycle that found key 0 up and key 1 still down
C34_Witness ==
    /\ last.op = "cycle" /\ ncycles = 1 /\ ~waiting_for_key
    /\ key_wait_register = 1 /\ v[1] = 0
    /\ pressed_keys = {1} /\ pc = PROGRAM_START + 2

\* the release of key 1 is pending while key 0 is down and key 1 is up
C34_WitnessPending ==
    /\ waiting_for_key /\ waiting_for_key_release = 1 /\ pressed_keys = {0}


\* C35: with no input source attached, a CPU that waits for a key goes on
\* waiting through every cycle(): the cycle returns Ok without fetching a
\* word and leaves the registers, the memory, the stack, the instruction
\* count and the target register as they were, also when handle_key_press
\* has recorded a key; handle_key_press and load_rom do not end the wait,
\* and the only step that does is reset().
C35_NoInputWaitsForever ==
    [][(~input_attached /\ waiting_for_key) =>
         /\ IsCycle =>
              /\ last'.res = OK /\ last'.fetched = None
              /\ waiting_for_key'
              /\ waiting_for_key_release' = waiting_for_key_release
              /\ key_wait_register' = key_wait_register
              /\ v' = v /\ i' = i /\ pc' = pc /\ sp' = sp
              /\ mem_data' = mem_data
              /\ stack_data' = stack_data /\ stack_sp' = stack_sp
              /\ instruction_count' = instruction_count
              /\ display' = display
         /\ ~waiting_for_key' => last'.op = "reset" /\ ncycles' = 0
         /\ (waiting_for_key' /\ ~IsCycle) => v' = v]_vars

\* without an input source, LD V1,K ran, handle_key_press recorded key 1 and
\* two later cycles found the CPU still waiting, V1 untouched
C35_Witness ==
    /\ ~input_attached /\ waiting_for_key /\ waiting_for_key_release = 1
    /\ last.op = "cycle" /\ last.fetched = None /\ ncycles >= 3
    /\ key_wait_register = 1 /\ v[1] = 0 /\ instruction_count = 1

\* the wait without a recorded key, several cycles on
C35_WitnessNoKey ==
    /\ ~input_attached /\ waiting_for_key /\ waiting_for_key_release = None
    /\ last.op = "cycle" /\ last.fetched = None /\ ncycles = MaxCycles


C36_WitnessCaptured ==
    /\ input_attached /\ waiting_for_key /\ waiting_for_key_release = 0
    /\ pressed_keys = {0} /\ last.op = "cycle" /\ last.fetched = None

\* load_rom was refused while the CPU waited with a release pending
C36_WitnessLoadRom ==
    /\ waiting_for_key /\ waiting_for_key_release # None
    /\ last.op = "load_rom" /\ ~IsOk(last.res)


\* C37 as stated: the sp field of the state snapshot is the number of
\* entries of its stack_contents.
C37_Original == get_state(CpuRec).sp = Len(get_state(CpuRec).stack_contents)

\* C37: the snapshot's stack_contents are the entries of the call stack,
\* one more after each successful 2nnn and one fewer after each successful
\* 00EE, while the snapshot's sp is the stack pointer of the register file,
\* which no instruction writes: it is 0 in every state.
C37_SnapshotSp ==
    /\ [](/\ get_state(CpuRec).sp = 0
          /\ Len(get_state(CpuRec).stack_contents) = stack_sp)
    /\ [][Executed =>
            /\ N1 = 2 => stack_sp' = stack_sp + 1
            /\ W = RET => stack_sp' = stack_sp - 1
            /\ (N1 # 2 /\ W # RET) => stack_sp' = stack_sp]_vars

\* two nested calls succeeded: the snapshot lists two return addresses and
\* reports sp = 0
C37_Witness ==
    /\ last.op = "cycle" /\ last.res = OK /\ last.fetched = H(2,2,0,10)
    /\ get_state(CpuRec).stack_contents = << PROGRAM_START + 2, PROGRAM_START + 8 >>
    /\ get_state(CpuRec).sp = 0

\* a return brought the depth back to 1
C37_WitnessReturn ==
    /\ last.op = "cycle" /\ last.res = OK /\ last.fetched = RET
    /\ Len(get_state(CpuRec).stack_contents) = 1
    /\ get_state(CpuRec).sp = 0


\* C38 as stated: a write_word, write_byte or copy that returns an error
\* leaves every byte of memory as it was.
C38_Original ==
    [][(/\ last'.op \in {"write_word", "write_byte", "copy"}
        /\ last'.res.kind = "InvalidMemoryAccess") =>
          mem_data' = mem_data]_vars

\* C38: a write_byte or a copy that returns an error leaves memory as it
\* was, and so does a write_word whose first byte is refused (a >= 4096).
\* write_word(4095, value) in non-wraparound mode returns
\* InvalidMemoryAccess(4096) after it has stored the high byte of value at
\* 4095.
C38_FailedWrites ==
    [][(last'.res.kind = "InvalidMemoryAccess") =>
         /\ last'.op \in {"write_byte", "copy"} => mem_data' = mem_data
         /\ last'.op = "write_word" =>
              /\ ~wraparound_enabled
              /\ IF last'.a = MEMORY_SIZE - 1
                 THEN /\ last'.res.arg = MEMORY_SIZE
                      /\ mem_data' = SetCell(mem_data, MEMORY_SIZE - 1,
                                             WordValue \div 256)
                 ELSE /\ last'.a >= MEMORY_SIZE
                      /\ mem_data' = mem_data]_vars

\* write_word(4095, 0x1234) failed in a fresh non-wraparound memory and left
\* 0x12 in the last byte
C38_Witness ==
    /\ last.op = "write_word" /\ last.a = MEMORY_SIZE - 1
    /\ last.res = Err("InvalidMemoryAccess", MEMORY_SIZE)
    /\ ~wraparound_enabled
    /\ Modified = {MEMORY_SIZE - 1}
    /\ Cell(mem_data, MEMORY_SIZE - 1) = WordValue \div 256

\* a refused write_byte, a refused write_word and a refused copy that left
\* a fresh memory untouched
C38_WitnessByte ==
    /\ last.op = "write_byte" /\ last.res.kind = "InvalidMemoryAccess"
    /\ Modified = {}

C38_WitnessWord ==
    /\ last.op = "write_word" /\ last.a >= MEMORY_SIZE
    /\ last.res.kind = "InvalidMemoryAccess" /\ Modified = {}

C38_WitnessCopy ==
    /\ last.op = "copy" /\ last.res.kind = "InvalidMemoryAccess"
    /\ Modified = {}


\* the word is one of 6xnn, 7xnn, 8xy0, 8xy1, 8xy2, 8xy3
IsAssign == N1 \in {6, 7} \/ (N1 = 8 /\ N \in 0..3)

\* the byte the instruction puts in Vx
Assigned ==
    IF N1 = 6 THEN NN
    ELSE IF N1 = 7 THEN (v[X] + NN) % U8
    ELSE IF N = 0 THEN v[Y]
    ELSE IF N = 1 THEN BitOr(v[X], v[Y])
    ELSE IF N = 2 THEN BitAnd(v[X], v[Y])
    ELSE BitXor(v[X], v[Y])

\* C39: a cycle that fetches 6xnn, 7xnn, 8xy0, 8xy1, 8xy2 or 8xy3 succeeds
\* and changes Vx only, to nn, (Vx + nn) mod 256, Vy, Vx | Vy, Vx & Vy or
\* Vx ^ Vy: VF keeps its value unless x = F (7xnn reports no carry), no
\* other register, I, memory byte or stack entry changes, the timers only
\* tick as in any cycle, the PC is advanced by 2 and the instruction
\* counter by 1.
C39_AssignFrame ==
    [][(Fetched /\ IsAssign) =>
         /\ last'.res = OK
         /\ v' = [v EXCEPT ![X] = Assigned]
         /\ i' = i /\ sp' = sp
         /\ pc' = pc + 2
         /\ instruction_count' = instruction_count + 1
         /\ mem_data' = mem_data
         /\ stack_data' = stack_data /\ stack_sp' = stack_sp
         /\ \E periods \in 0..MaxTicks :
              [delay_timer |-> delay_timer', sound_timer |-> sound_timer'] =
                  Timers_update([delay_timer |-> delay_timer,
                                 sound_timer |-> sound_timer], periods)
         /\ waiting_for_key' = waiting_for_key
         /\ key_wait_register' = key_wait_register
         /\ waiting_for_key_release' = waiting_for_key_release
         /\ display' = display]_vars

\* ADD V1,0xFF with V1 = 0xAA gave 0xA9 and left VF = 0 although the sum
\* passed 255
C39_Witness ==
    /\ last.op = "cycle" /\ last.res = OK /\ last.fetched = H(7,1,15,15)
    /\ v[1] = 169 /\ v[FLAG_REGISTER] = 0 /\ v[0] = 1 /\ v[2] = 2
    /\ i = 768 /\ stack_sp = 1 /\ pc = PROGRAM_START + 2

\* XOR VF,V1 wrote VF itself: 0xFF ^ 0xAA = 0x55
C39_WitnessFlag ==
    /\ last.op = "cycle" /\ last.res = OK /\ last.fetched = H(8,15,1,3)
    /\ v[FLAG_REGISTER] = 85 /\ v[1] = 170

\* OR V0,V1 with V0 = 0xAA and V1 = 1, the timer having ticked once meanwhile
C39_WitnessOr ==
    /\ last.op = "cycle" /\ last.res = OK /\ last.fetched = H(8,0,1,1)
    /\ v[0] = 171 /\ v[1] = 1 /\ delay_timer = 2


\* C40: reset(), from whatever state, leaves the CPU as a freshly
\* constructed one with the same wraparound setting: PC = 0x200, I = 0, every
\* V register 0, both timers 0, an empty call stack, instruction counter 0,
\* not waiting for a key, and a memory that is zero everywhere but for the
\* font table at 0x050..0x09F, restored even where it had been overwritten.
\* The display and the audio sink stay attached as they were.  (A byte that
\* was 0 before and is not stored after is 0; the others are looked at.)
C40_ResetIsFresh ==
    [][last'.op = "reset" =>
         LET fresh == Cpu_new_with_config(wraparound_enabled)
         IN /\ CpuRec' = [fresh EXCEPT !.display = display, !.audio = audio]
            /\ pc' = PROGRAM_START /\ i' = 0
            /\ \A k \in 0..(NUM_REGISTERS - 1) : v'[k] = 0
            /\ delay_timer' = 0 /\ sound_timer' = 0
            /\ get_contents([data |-> stack_data', sp |-> stack_sp']) = << >>
            /\ instruction_count' = 0
            /\ ~waiting_for_key' /\ waiting_for_key_release' = None
            /\ wraparound_enabled' = wraparound_enabled
            /\ \A a \in DOMAIN mem_data \cup DOMAIN mem_data' \cup {0, MEMORY_SIZE - 1}
                       \cup (FONT_START - 1) .. (FONT_START + FONT_SIZE) :
                 Cell(mem_data', a) =
                     IF a \in FONT_START .. (FONT_START + FONT_SIZE - 1)
                     THEN FONT_SET[a - FONT_START + 1] ELSE 0]_vars

\* the store over the font table ran: the first font byte is 0xAB and the
\* CPU has counted three instructions
C40_WitnessOverwritten ==
    /\ Cell(mem_data, FONT_START) = 171 /\ instruction_count = 3
    /\ last.op = "cycle" /\ last.fetched = H(15,0,5,5)

\* after reset() in wraparound mode: the font byte is back, the mode is kept
C40_Witness ==
    /\ last.op = "reset" /\ wraparound_enabled /\ ncycles = 0
    /\ Cell(mem_data, FONT_START) = FONT_SET[1]
    /\ Cell(mem_data, PROGRAM_START) = 0
    /\ pc = PROGRAM_START /\ instruction_count = 0 /\ stack_sp = 0

=============================================================================
